---------------------------- MODULE Spec2Model ----------------------------
(***************************************************************************)
(* A model of DatabaseCore, the object-relational layer of the books       *)
(* application (src/unnamed/part_000, lines 183-1107).                     *)
(*                                                                         *)
(* Three specifications share this module:                                 *)
(*   Spec        record access (insert / update / get) on collection       *)
(*               schemas with child tables;                                *)
(*   SpecMigrate migrate(): createTable, alterTable, the floating          *)
(*               removeColumns rebuild, addForeignKeys and its fallback;   *)
(*   SpecSingle  the SingleValue store of singleton schemas.               *)
(* Each specification leaves the variables of the other two untouched.     *)
(***************************************************************************)
EXTENDS Integers, Sequences, FiniteSets, Bags, TLC

VARIABLES
  db,      \* Spec: table name -> set of rows (Inv, Bill, Row)
  last,    \* Spec: the last completed call, its (mutated) argument and outcome
  cfg,     \* SpecMigrate: [old, new, n]: the version the Item table was
           \* created from (<<>>: a fresh database), the version in the schema
           \* map, the number of rows of the Item table
  tbl,     \* SpecMigrate: physical table name -> table
  fkOn,    \* SpecMigrate: PRAGMA foreign_keys
  txn,     \* SpecMigrate: [active, snap]: whether a BEGIN TRANSACTION is open,
           \* and the tables as they were when it began
  th,      \* SpecMigrate: thread -> [pc, rows, i]; thread 0 is migrate(), the
           \* others are floating #removeColumns calls
  mig,     \* SpecMigrate: migrate()'s locals and what it has done so far
  sv,      \* SpecSingle: the rows of the SingleValue table
  floats,  \* SpecSingle: the #insertSingleValue calls not yet run
  call,    \* SpecSingle: caller -> the call it has in flight
  ret,     \* SpecSingle: the call that returned last
  calls    \* SpecSingle: the number of calls started

crudVars == <<db, last>>
migVars == <<cfg, tbl, fkOn, txn, th, mig>>
sinVars == <<sv, floats, call, ret, calls>>
vars == <<crudVars, migVars, sinVars>>

(***************************************************************************)
(* Values                                                                  *)
(***************************************************************************)
\* JavaScript undefined for a string-valued key
Undef == "<undefined>"
\* SQL NULL / JavaScript null in a string-valued column
Null == "<null>"
\* JavaScript undefined for the numeric key idx
NoIdx == 0 - 1

(***************************************************************************)
(* Bounds of the record-access specification                               *)
(***************************************************************************)
\* longest child list a caller passes
MaxChildren == 2
\* largest idx a caller passes explicitly
MaxGivenIdx == 1

ParentNames == {"p1", "p2"}
\* the names callers use for rows of the second parent schema
BillNames == {"p1"}
ChildNames == {"c1", "c2"}
\* the names getRandomString can return in this model
GenNames == {"g1"}
Notes == {"x"}

(***************************************************************************)
(* Schema map of the record-access specification: two collection schemas   *)
(* that share one child table, as Table fields with the same target do.    *)
(***************************************************************************)
schemaMap ==
  [ Inv  |-> [isSingle |-> FALSE,
              fields |-> << [fieldname |-> "name",  fieldtype |-> "Data",  target |-> ""],
                            [fieldname |-> "note",  fieldtype |-> "Data",  target |-> ""],
                            [fieldname |-> "items", fieldtype |-> "Table", target |-> "Row"] >>],
    Bill |-> [isSingle |-> FALSE,
              fields |-> << [fieldname |-> "name",  fieldtype |-> "Data",  target |-> ""],
                            [fieldname |-> "lines", fieldtype |-> "Table", target |-> "Row"] >>],
    Row  |-> [isSingle |-> FALSE,
              fields |-> << [fieldname |-> "name",             fieldtype |-> "Data", target |-> ""],
                            [fieldname |-> "parent",           fieldtype |-> "Data", target |-> ""],
                            [fieldname |-> "parentSchemaName", fieldtype |-> "Data", target |-> ""],
                            [fieldname |-> "parentFieldname",  fieldtype |-> "Data", target |-> ""],
                            [fieldname |-> "idx",              fieldtype |-> "Int",  target |-> ""] >>] ]

ParentSchemas == {"Inv", "Bill"}

\* #getTableFields: the Table fields of a schema, in schema order
getTableFields(schemaName) ==
  SelectSeq(schemaMap[schemaName].fields, LAMBDA f : f.fieldtype = "Table")

HasField(schemaName, fieldname) ==
  \E i \in 1..Len(schemaMap[schemaName].fields) :
     schemaMap[schemaName].fields[i].fieldname = fieldname

(***************************************************************************)
(* Arguments.  A fieldValueMap of a parent schema is                       *)
(*   [name, note, hasList, list]: hasList says whether the schema's Table  *)
(* field is given (not undefined, not null), list is its value.  A child   *)
(* record as the caller passes it is [name, idx].                          *)
(***************************************************************************)
ChildRecs == [name : ChildNames \cup {Undef}, idx : {NoIdx} \cup 0..MaxGivenIdx]

ChildLists == UNION { [1..n -> ChildRecs] : n \in 0..MaxChildren }

FieldValueMaps(schemaName) ==
  [name : IF schemaName = "Bill" THEN BillNames ELSE ParentNames,
   note : IF HasField(schemaName, "note") THEN Notes \cup {Undef} ELSE {Undef},
   hasList : BOOLEAN,
   list : ChildLists]

RowNames(rows) == { r.name : r \in rows }

Injective(q) == \A i, j \in DOMAIN q : i # j => q[i] # q[j]

SeqRange(q) == { q[i] : i \in DOMAIN q }

\* positions of a child list whose record has no name: #prepareChild fills
\* an undefined name, #insertOne an empty one
Unnamed(list) == { i \in DOMAIN list : list[i].name \in {Undef, ""} }

\* getRandomString, once per unnamed record: names not in use in the target
\* table and pairwise distinct (a collision of random names is not modelled)
getRandomString(list, used) ==
  { g \in [Unnamed(list) -> GenNames \ used] : Injective(g) }

(***************************************************************************)
(* Row-level operations                                                    *)
(***************************************************************************)
\* #prepareChild: name generated when absent, linkage overwritten, idx
\* defaulted to the position when absent
prepareChild(parentSchemaName, parentName, child, field, idx, rnd) ==
  [name |-> IF child.name \in {Undef, ""} THEN rnd ELSE child.name,
   parent |-> parentName,
   parentSchemaName |-> parentSchemaName,
   parentFieldname |-> field.fieldname,
   idx |-> IF child.idx = NoIdx THEN idx ELSE child.idx]

\* exists(schemaName, name) on a collection schema: the WHERE name = ? is
\* added only when a name is given, then LIMIT 1
exists(rows, name) ==
  IF name = Undef THEN rows # {} ELSE \E r \in rows : r.name = name

\* the validMap of #insertOne for a parent schema: one entry per non-Table
\* field, an undefined value is stored as NULL
validMap(schemaName, m) ==
  IF HasField(schemaName, "note")
    THEN [name |-> m.name, note |-> IF m.note = Undef THEN Null ELSE m.note]
    ELSE [name |-> m.name]

\* #insertOne: the insert is rejected when the primary key is in use
insertOne(rows, row) ==
  IF exists(rows, row.name)
    THEN [ok |-> FALSE, rows |-> rows]
    ELSE [ok |-> TRUE, rows |-> rows \cup {row}]

\* an UPDATE without the WHERE name = ?
updateOne_everyRow(rows, schemaName, m) ==
  IF m.note = Undef
    THEN rows
    ELSE { [r EXCEPT !.note = m.note] : r \in rows }

\* #updateOne on a parent schema: the non-Table, non-name keys given
updateOne(rows, schemaName, m) ==
  IF m.note = Undef
    THEN rows
    ELSE { IF r.name = m.name THEN [r EXCEPT !.note = m.note] ELSE r : r \in rows }

\* #updateOne on the child schema: every key of the prepared child but name
updateOneChild(rows, child) ==
  { IF r.name = child.name THEN child ELSE r : r \in rows }

\* a reconciliation that merges: no stored child is deleted
runDeleteOtherChildren_keep(rows, parentName, added) == rows

\* #runDeleteOtherChildren: where parent = parentName and name not in added
runDeleteOtherChildren(rows, parentName, added) ==
  { r \in rows : ~(r.parent = parentName /\ r.name \notin added) }

\* the loop of #insertOrUpdateChildren over the children of one Table field,
\* from position i on; added is the list of names handled so far
RECURSIVE upsertChildren(_, _, _, _, _, _, _, _, _)
upsertChildren(rows, schemaName, parentName, field, list, rnd, i, added, isUpdate) ==
  IF i > Len(list)
    THEN [ok |-> TRUE, rows |-> rows, added |-> added]
    ELSE
      LET child == prepareChild(schemaName, parentName, list[i], field, Len(added),
                                IF i \in DOMAIN rnd THEN rnd[i] ELSE Undef)
      IN  IF isUpdate /\ exists(rows, child.name)
            THEN upsertChildren(updateOneChild(rows, child), schemaName, parentName,
                                field, list, rnd, i + 1, Append(added, child.name), isUpdate)
            ELSE
              LET r == insertOne(rows, child)
              IN  IF r.ok
                    THEN upsertChildren(r.rows, schemaName, parentName, field, list,
                                        rnd, i + 1, Append(added, child.name), isUpdate)
                    ELSE [ok |-> FALSE, rows |-> rows, added |-> added]

\* #insertOrUpdateChildren: each Table field whose value is given, then (on
\* update) the deletion of the parent's other children
RECURSIVE insertOrUpdateChildren(_, _, _, _, _, _)
insertOrUpdateChildren(rows, schemaName, m, rnd, k, isUpdate) ==
  LET tableFields == getTableFields(schemaName)
  IN  IF k > Len(tableFields)
        THEN [ok |-> TRUE, rows |-> rows]
        ELSE
          IF ~m.hasList
            THEN insertOrUpdateChildren(rows, schemaName, m, rnd, k + 1, isUpdate)
            ELSE
              LET u == upsertChildren(rows, schemaName, m.name, tableFields[k],
                                      m.list, rnd, 1, <<>>, isUpdate)
              IN  IF ~u.ok
                    THEN [ok |-> FALSE, rows |-> u.rows]
                    ELSE insertOrUpdateChildren(
                           IF isUpdate
                             THEN runDeleteOtherChildren(u.rows, m.name, SeqRange(u.added))
                             ELSE u.rows,
                           schemaName, m, rnd, k + 1, isUpdate)

\* the child records of the argument as the call leaves them (the code
\* assigns name, linkage and idx into the caller's objects)
Prepared(schemaName, m, rnd) ==
  [i \in DOMAIN m.list |->
     prepareChild(schemaName, m.name, m.list[i], getTableFields(schemaName)[1], i - 1,
                  IF i \in DOMAIN rnd THEN rnd[i] ELSE Undef)]

(***************************************************************************)
(* get                                                                     *)
(***************************************************************************)
\* #getOne: the row with that primary key, or nothing
getOne(rows, name) == { r \in rows : r.name = name }

SortedByIdx(q) == \A i, j \in DOMAIN q : i < j => q[i].idx <= q[j].idx

\* #loadChildren for one Table field: getAll(target, parent = parentName,
\* order by idx asc).  Rows of equal idx come in an order the engine picks.
loadChildren(rows, parentName) ==
  LET mine == { r \in rows : r.parent = parentName }
  IN  { q \in [1..Cardinality(mine) -> mine] : Injective(q) /\ SortedByIdx(q) }

\* get(schemaName, name) with all fields: the results the call can return
get(d, schemaName, name) ==
  { [row |-> getOne(d[schemaName], name), children |-> c] :
      c \in loadChildren(d[getTableFields(schemaName)[1].target], name) }

(***************************************************************************)
(* Calls                                                                   *)
(***************************************************************************)
\* own: the names of the child rows stored under the argument's name before
\* the call; all: the names of all rows of the child table before the call
NoCall == [op |-> "none", schemaName |-> "", map |-> <<>>, prepared |-> <<>>,
           prior |-> <<>>, ok |-> TRUE]

Prior(name) ==
  [own |-> RowNames({ r \in db["Row"] : r.parent = name }),
   all |-> RowNames(db["Row"])]

\* insert(schemaName, fieldValueMap) on a collection schema
insert(schemaName, m) ==
  \E rnd \in getRandomString(m.list, RowNames(db["Row"]) \cup ChildNames) :
    LET p == insertOne(db[schemaName], validMap(schemaName, m))
        c == insertOrUpdateChildren(db["Row"], schemaName, m, rnd, 1, FALSE)
    IN  /\ db' = IF p.ok
                   THEN [db EXCEPT ![schemaName] = p.rows, !["Row"] = c.rows]
                   ELSE db
        /\ last' = [op |-> "insert", schemaName |-> schemaName, map |-> m,
                    prepared |-> Prepared(schemaName, m, rnd),
                    prior |-> Prior(m.name),
                    ok |-> p.ok /\ c.ok]

\* update(schemaName, fieldValueMap) on a collection schema
update(schemaName, m) ==
  \E rnd \in getRandomString(m.list, RowNames(db["Row"]) \cup ChildNames) :
    LET c == insertOrUpdateChildren(db["Row"], schemaName, m, rnd, 1, TRUE)
    IN  /\ db' = [db EXCEPT ![schemaName] = updateOne(db[schemaName], schemaName, m),
                            !["Row"] = c.rows]
        /\ last' = [op |-> "update", schemaName |-> schemaName, map |-> m,
                    prepared |-> Prepared(schemaName, m, rnd),
                    prior |-> Prior(m.name),
                    ok |-> c.ok]

\* a caller awaits insert
Insert == /\ last = NoCall
          /\ \E s \in ParentSchemas : \E m \in FieldValueMaps(s) :
               /\ (~m.hasList => m.list = <<>>)
               /\ insert(s, m)
          /\ UNCHANGED <<migVars, sinVars>>

\* a caller awaits update
Update == /\ last = NoCall
          /\ \E s \in ParentSchemas : \E m \in FieldValueMaps(s) :
               /\ (~m.hasList => m.list = <<>>)
               /\ update(s, m)
          /\ UNCHANGED <<migVars, sinVars>>

\* the caller lets go of the argument and outcome of the completed call; the
\* next call starts from the stored data alone
Forget == /\ last # NoCall
          /\ last' = NoCall
          /\ UNCHANGED <<db, migVars, sinVars>>

(***************************************************************************)
(* rename and delete                                                       *)
(*                                                                         *)
(* A second specification of record access: callers also rename and delete *)
(* parent rows, and pass absent and empty names.  Its inputs are smaller:  *)
(* one name a caller picks for new rows, lists of at most one child.       *)
(***************************************************************************)
\* the names getRandomString can return for a parent row
ParentGenNames == {"g2"}

\* the maps a caller passes to insert and update
OwnLists == UNION { [1..n -> [name : {"c1", Undef, ""}, idx : {NoIdx}]] : n \in 0..1 }

OwnMaps == [name : {"p1", Undef, ""}, note : {Undef}, hasList : BOOLEAN, list : OwnLists]

\* the names a caller passes to rename and delete
OwnNames == {"p1", "p2", "g2"}

\* #insertOne: a map without a name, or with an empty one, gets a generated
\* name (the assignment is to the caller's map)
named(m, g) == IF m.name \in {Undef, ""} THEN [m EXCEPT !.name = g] ELSE m

\* #deleteOne
deleteOne(rows, name) == { r \in rows : r.name # name }

\* #deleteChildren
deleteChildren(rows, parentName) == { r \in rows : r.parent # parentName }

\* the loop of delete over the Table fields of the schema, from field k on
RECURSIVE deleteAllChildren(_, _, _, _)
deleteAllChildren(d, schemaName, name, k) ==
  LET tableFields == getTableFields(schemaName)
  IN  IF k > Len(tableFields)
        THEN d
        ELSE deleteAllChildren(
               [d EXCEPT ![tableFields[k].target] =
                           deleteChildren(d[tableFields[k].target], name)],
               schemaName, name, k + 1)

\* the record of a rename or delete: the stored data before the call
CalledOn(op, schemaName, name, newName, ok) ==
  [op |-> op, schemaName |-> schemaName, name |-> name, newName |-> newName,
   prior |-> db, ok |-> ok]

\* delete(schemaName, name) on a collection schema.  restricted: a Link
\* field of some other row references the row and the engine rejects
\* #deleteOne; the error leaves delete before its loop
delete(schemaName, name, restricted) ==
  IF restricted /\ exists(db[schemaName], name)
    THEN /\ db' = db
         /\ last' = CalledOn("delete", schemaName, name, name, FALSE)
    ELSE /\ db' = deleteAllChildren(
                    [db EXCEPT ![schemaName] = deleteOne(db[schemaName], name)],
                    schemaName, name, 1)
         /\ last' = CalledOn("delete", schemaName, name, name, TRUE)

\* the statement of rename on stored data d: one UPDATE of the name column of
\* schemaName's table; a primary key in use rejects it
renameRow(d, schemaName, oldName, newName) ==
  LET rows == d[schemaName]
      clash == exists(rows, oldName) /\ exists(rows, newName) /\ newName # oldName
  IN  [ok |-> ~clash,
       db |-> IF clash
                THEN d
                ELSE [d EXCEPT ![schemaName] =
                        { IF r.name = oldName THEN [r EXCEPT !.name = newName] ELSE r :
                            r \in rows }]]

\* rename(schemaName, oldName, newName)
rename(schemaName, oldName, newName) ==
  /\ db' = renameRow(db, schemaName, oldName, newName).db
  /\ last' = CalledOn("rename", schemaName, oldName, newName,
                      renameRow(db, schemaName, oldName, newName).ok)

\* a caller awaits insert; the name may be absent or empty
O_insert ==
  /\ last = NoCall
  /\ \E s \in ParentSchemas, m \in OwnMaps :
       \E g \in ParentGenNames \cup {Undef} :
         /\ g = Undef <=> m.name \notin {Undef, ""}
         /\ g \notin RowNames(db[s])
         /\ (~m.hasList => m.list = <<>>)
         /\ insert(s, named(m, g))
  /\ UNCHANGED <<migVars, sinVars>>

\* a caller awaits update
O_update ==
  /\ last = NoCall
  /\ \E s \in ParentSchemas, m \in OwnMaps :
       /\ m.name \notin {Undef, ""}
       /\ (~m.hasList => m.list = <<>>)
       /\ update(s, m)
  /\ UNCHANGED <<migVars, sinVars>>

\* a caller awaits delete
Delete ==
  /\ last = NoCall
  /\ \E s \in ParentSchemas, name \in OwnNames, restricted \in BOOLEAN :
       delete(s, name, restricted)
  /\ UNCHANGED <<migVars, sinVars>>

\* a caller awaits rename
Rename ==
  /\ last = NoCall
  /\ \E s \in ParentSchemas, oldName \in OwnNames, newName \in OwnNames \cup {""} :
       rename(s, oldName, newName)
  /\ UNCHANGED <<migVars, sinVars>>

NextOwn == O_insert \/ O_update \/ Delete \/ Rename \/ Forget

(***************************************************************************)
(* getAll and the filter compiler                                          *)
(*                                                                         *)
(* The table Entry has the columns name, status and date, all integers.    *)
(* A filter map gives a value for some of the fields status and date.  A   *)
(* value is a literal, or an array [op, v] or [op1, v1, op2, v2]:          *)
(*   [kind, ops, vals] with kind "literal" (vals = <<v>>), "pair" or       *)
(*   "quad"; ops[i] and vals[i] are the array's elements 2i-2 and 2i-1.    *)
(***************************************************************************)
\* the values a caller filters by, and the values of the columns
MaxFilterValue == 3
FilterValues == 1..MaxFilterValue
StatusValues == {1, 2}
EntryNames == {1, 2}

\* the comparison operators a caller passes
FilterOps == {"=", "!=", "<", "<=", ">", ">="}
RangeOps == {"<=", ">=", "<"}

FilterFields == <<"status", "date">>
\* the order of the keys of a filter map: Entry's fields, then Note's title
FieldOrder == FilterFields \o <<"title">>

\* the rows the Entry table can hold, and the tables: one row per name
EntryRows == [name : EntryNames, status : StatusValues, date : FilterValues]

EntryTables == { t \in SUBSET EntryRows : \A r, q \in t : r.name = q.name => r = q }

Literal(v) == [kind |-> "literal", ops |-> <<>>, vals |-> <<v>>]

\* the values a filter map can give for a field
FilterValuesOf(field) ==
  IF field = "status"
    THEN { Literal(v) : v \in StatusValues }
    ELSE { Literal(v) : v \in FilterValues }
         \cup { [kind |-> "pair", ops |-> <<op>>, vals |-> <<v>>] :
                  op \in FilterOps, v \in FilterValues }
         \cup { [kind |-> "quad", ops |-> <<op1, op2>>, vals |-> <<v1, v2>>] :
                  op1 \in RangeOps, op2 \in RangeOps, v1 \in FilterValues, v2 \in FilterValues }

\* the filter maps: a value for each field of a subset of the fields
FilterMaps ==
  UNION { { f \in [fs -> UNION { FilterValuesOf(x) : x \in fs }] :
              \A x \in fs : f[x] \in FilterValuesOf(x) } :
          fs \in SUBSET SeqRange(FilterFields) }

\* String.prototype.toLowerCase on an operator
toLowerCase(op) ==
  CASE op = "LIKE" -> "like"
    [] op = "INCLUDES" -> "includes"
    [] OTHER -> op

\* Array.prototype.includes / String.prototype.includes for one character: a
\* text is the sequence of its characters
includes(text, c) == \E i \in DOMAIN text : text[i] = c

\* the first condition #applyFiltersToBuilder pushes for a field: equality
\* for a literal; for an array the lowercased first operator, includes
\* rewritten to like, and a like operand without wildcard wrapped
firstCondition(field, value) ==
  IF value.kind = "literal"
    THEN <<field, "=", value.vals[1]>>
    ELSE LET lower == toLowerCase(value.ops[1])
             operator == IF lower = "includes" THEN "like" ELSE lower
         IN  IF operator = "like" /\ ~includes(value.vals[1], "%")
               THEN <<field, operator, <<"%">> \o value.vals[1] \o <<"%">> >>
               ELSE <<field, operator, value.vals[1]>>

\* a compiler that drops the second condition of a four-element array
conditionsFirstOnly(field, value) == << firstCondition(field, value) >>

\* the conditions pushed for one field: the second one of a four-element
\* array is pushed as given
conditions(field, value) ==
  IF value.kind = "quad"
    THEN << firstCondition(field, value), <<field, value.ops[2], value.vals[2]>> >>
    ELSE << firstCondition(field, value) >>

\* filtersArray of #applyFiltersToBuilder: the loop over the fields of the
\* filter map, from field k on
RECURSIVE filtersArray(_, _)
filtersArray(filters, k) ==
  IF k > Len(FieldOrder)
    THEN <<>>
    ELSE IF FieldOrder[k] \in DOMAIN filters
      THEN conditions(FieldOrder[k], filters[FieldOrder[k]])
           \o filtersArray(filters, k + 1)
      ELSE filtersArray(filters, k + 1)

\* the engine's LIKE: % in the pattern stands for any run of characters
RECURSIVE Like(_, _)
Like(text, pattern) ==
  IF pattern = <<>>
    THEN text = <<>>
    ELSE IF Head(pattern) = "%"
      THEN Like(text, Tail(pattern)) \/ (text # <<>> /\ Like(Tail(text), pattern))
      ELSE text # <<>> /\ Head(text) = Head(pattern) /\ Like(Tail(text), Tail(pattern))

\* the operators the query builder accepts in where(); it rejects the query
\* for any other
Permitted == {"=", "!=", "<", "<=", ">", ">=", "like"}

\* the comparison the engine makes for builder.where(field, operator, value)
Compare(x, operator, v) ==
  CASE operator = "like" -> Like(x, v)
    [] operator = "="  -> x = v
    [] operator = "!=" -> x # v
    [] operator = "<"  -> x < v
    [] operator = "<=" -> x <= v
    [] operator = ">"  -> x > v
    [] operator = ">=" -> x >= v

\* the builder after #applyFiltersToBuilder: every where() adds a conjunct
where(row, fa) == \A i \in DOMAIN fa : Compare(row[fa[i][1]], fa[i][2], fa[i][3])

\* getAll(schemaName, {filters}) with the default fields ['name']: the names
\* of the selected rows
getAll(rows, filters) ==
  { r.name : r \in { x \in rows : where(x, filtersArray(filters, 1)) } }

\* a caller awaits getAll('Entry', {filters})
\* getAll never finds the schema missing
schemaUndefined_never(schemaName) == FALSE

\* getAll: this.schemaMap[schemaName] === undefined; Entry and Note are
\* registered next to the schemas of schemaMap
schemaUndefined(schemaName) == schemaName \notin DOMAIN schemaMap \cup {"Entry", "Note"}

\* the schema names a caller passes: Ghost is not registered
GetAllSchemas == {"Entry", "Ghost"}

\* a caller awaits getAll(schemaName, {filters}): without the schema it
\* throws before the query is built; the query on a table that does not
\* exist is rejected by the engine
GetAll ==
  /\ last = NoCall
  /\ \E schemaName \in GetAllSchemas, filters \in FilterMaps :
       last' = [op |-> "getAll", schemaName |-> schemaName, filters |-> filters,
                error |-> IF schemaUndefined(schemaName) THEN "NotFoundError"
                          ELSE IF schemaName \notin DOMAIN db THEN "SqliteError" ELSE "",
                queries |-> IF schemaUndefined(schemaName) THEN 0 ELSE 1,
                result |-> IF schemaName \in DOMAIN db
                             THEN getAll(db[schemaName], filters) ELSE {}]
  /\ UNCHANGED <<db, migVars, sinVars>>

NextFilter == GetAll \/ Forget

(***************************************************************************)
(* getAll with substring filters: the table Note has the columns name and  *)
(* title, a title is a text.                                               *)
(***************************************************************************)
Titles == { <<"a">>, <<"b", "a", "c">>, <<"b">> }
\* the operands a caller passes: without and with the wildcard
LikeOperands == { <<"a">>, <<"a", "%">> }
\* the operators a caller passes at the first and at the second place
LikeOps == {"like", "includes", "LIKE"}
LikeOps2 == {"like", "includes"}

NoteTables == { t \in SUBSET [name : EntryNames, title : Titles] :
                  \A r, q \in t : r.name = q.name => r = q }

\* filter maps on title: [op, v] and [op1, v1, op2, v2]
LikeMaps ==
  { [title |-> [kind |-> "pair", ops |-> <<op>>, vals |-> <<v>>]] :
      op \in LikeOps, v \in LikeOperands }
  \cup { [title |-> [kind |-> "quad", ops |-> <<op1, op2>>, vals |-> <<v1, v2>>]] :
           op1 \in LikeOps, op2 \in LikeOps2, v1 \in LikeOperands, v2 \in LikeOperands }

\* a caller awaits getAll('Note', {filters}): conditions are the where()
\* calls made on the builder; the call is rejected when one of them has an
\* operator the builder does not accept
GetAllLike ==
  /\ last = NoCall
  /\ \E filters \in LikeMaps :
       LET fa == filtersArray(filters, 1)
           ok == \A i \in DOMAIN fa : fa[i][2] \in Permitted
       IN  last' = [op |-> "getAll", schemaName |-> "Note", filters |-> filters,
                    conditions |-> fa, ok |-> ok,
                    result |-> IF ok THEN getAll(db["Note"], filters) ELSE {}]
  /\ UNCHANGED <<db, migVars, sinVars>>

NextLike == GetAllLike \/ Forget

(***************************************************************************)
(* migrate(): physical tables                                              *)
(*                                                                         *)
(* A physical table is [exists, cols, notnull, fks, rows]: cols the column *)
(* names in physical order, notnull the NOT NULL columns, fks the columns  *)
(* registered as foreign keys, rows the rows in rowid order, each a        *)
(* function from column name to value.  Values are integers, 0 is NULL.    *)
(***************************************************************************)
NoTable == [exists |-> FALSE, cols |-> <<>>, notnull |-> {}, fks |-> {}, rows |-> <<>>]

\* the batch size of prestigeTheTable
max == 200

\* row counts beyond the batch size that the model tries
MaxExtra == 2
\* migrate() calls in one behaviour
MaxRuns == 2

\* the numbers of rows the Item table holds before migrate()
RowCounts == {0, 1, 2} \cup { max + d : d \in 0..MaxExtra }

\* field definitions of the migrated schemas
FName  == [fieldname |-> "name",  fieldtype |-> "Data",  required |-> TRUE,  target |-> ""]
FA     == [fieldname |-> "a",     fieldtype |-> "Data",  required |-> TRUE,  target |-> ""]
FB     == [fieldname |-> "b",     fieldtype |-> "Data",  required |-> FALSE, target |-> ""]
FAcc   == [fieldname |-> "acc",   fieldtype |-> "Link",  required |-> FALSE, target |-> "Account"]
FAccD  == [fieldname |-> "acc",   fieldtype |-> "Data",  required |-> FALSE, target |-> ""]
FItems == [fieldname |-> "items", fieldtype |-> "Table", required |-> FALSE, target |-> "Row"]

\* the Type Mapping Table: the field types that have a native column type
typeMap == {"Data", "Text", "Int", "Currency", "Select", "Link", "AttachImage"}

Perms(S) == { q \in [1..Cardinality(S) -> S] : Injective(q) }

\* the versions of the Item schema a release can ship: name first, the
\* required field a and any of b and the Link acc in any order, the Table
\* field last
ItemVersions ==
  { <<FName>> \o q \o <<FItems>> :
      q \in UNION { Perms({FA} \cup opt) : opt \in SUBSET {FB, FAcc} } }

\* the versions an earlier release created the Item table from
OldVersions ==
  { <<FName, FA>> \o b \o l \o <<FItems>> :
      b \in {<<>>, <<FB>>}, l \in {<<>>, <<FAcc>>, <<FAccD>>} }

\* the schemas in the order migrate() visits them
migSchemaNames == <<"Account", "Item">>

AccountFields == <<FName>>

Fields(schemaName) == IF schemaName = "Item" THEN cfg.new ELSE AccountFields

FieldNames(fields) == [i \in DOMAIN fields |-> fields[i].fieldname]

\* position of x in sequence q (0 when absent)
IndexOf(q, x) == IF \E i \in DOMAIN q : q[i] = x
                   THEN CHOOSE i \in DOMAIN q : q[i] = x
                   ELSE 0

(***************************************************************************)
(* The backing engine                                                      *)
(***************************************************************************)
\* the rows of the target table a foreign key column must reference
FkViolated(tables, table, row) ==
  \E c \in table.fks :
     /\ row[c] # 0
     /\ \/ ~tables["Account"].exists
        \/ \A i \in DOMAIN tables["Account"].rows : tables["Account"].rows[i]["name"] # row[c]

\* INSERT of rows given by column name: a key that is no column, a NULL in a
\* NOT NULL column, a primary key in use or (checking on) a dangling foreign
\* key rejects the statement; a column not given is NULL
InsertRows(tables, name, rows, checking) ==
  LET table == tables[name]
      full  == [i \in DOMAIN rows |->
                  [c \in SeqRange(table.cols) |->
                     IF c \in DOMAIN rows[i] THEN rows[i][c] ELSE 0]]
      all   == table.rows \o full
      bad   == \/ ~table.exists
               \/ \E i \in DOMAIN rows : ~(DOMAIN rows[i] \subseteq SeqRange(table.cols))
               \/ \E i \in DOMAIN full : \E c \in table.notnull : full[i][c] = 0
               \/ Cardinality({ all[i]["name"] : i \in DOMAIN all }) # Len(all)
               \/ checking /\ \E i \in DOMAIN full : FkViolated(tables, table, full[i])
  IN  IF bad
        THEN [ok |-> FALSE, tables |-> tables]
        ELSE [ok |-> TRUE, tables |-> [tables EXCEPT ![name].rows = all]]

\* INSERT INTO dst SELECT * FROM src: the values go by column position
InsertSelectAll(tables, dst, src, checking) ==
  LET s == tables[src]
      d == tables[dst]
  IN  IF ~s.exists \/ ~d.exists \/ Len(s.cols) # Len(d.cols)
        THEN [ok |-> FALSE, tables |-> tables]
        ELSE InsertRows(tables, dst,
                        [i \in DOMAIN s.rows |->
                           [c \in SeqRange(d.cols) |-> s.rows[i][s.cols[IndexOf(d.cols, c)]]]],
                        checking)

\* SELECT fields FROM name
SelectRows(tables, name, fields) ==
  LET table == tables[name]
  IN  IF ~table.exists \/ ~(SeqRange(fields) \subseteq SeqRange(table.cols))
        THEN [ok |-> FALSE, rows |-> <<>>]
        ELSE [ok |-> TRUE,
              rows |-> [i \in DOMAIN table.rows |->
                          [c \in SeqRange(fields) |-> table.rows[i][c]]]]

\* DROP TABLE
DropTable(tables, name) ==
  IF ~tables[name].exists
    THEN [ok |-> FALSE, tables |-> tables]
    ELSE [ok |-> TRUE, tables |-> [tables EXCEPT ![name] = NoTable]]

\* ALTER TABLE from RENAME TO to
RenameTable(tables, from, to) ==
  IF ~tables[from].exists \/ tables[to].exists
    THEN [ok |-> FALSE, tables |-> tables]
    ELSE [ok |-> TRUE, tables |-> [tables EXCEPT ![to] = tables[from], ![from] = NoTable]]

\* PRAGMA foreign_keys = v is a no-op inside a transaction
Pragma(v) == IF txn.active THEN fkOn ELSE v

(***************************************************************************)
(* Schema operations of DatabaseCore                                       *)
(***************************************************************************)
\* #buildColumnForTable over a field list: a column per field that has a
\* column type (none for a Table field), NOT NULL for required fields, a
\* foreign key per Link field with a target
buildColumnForTable(fields) ==
  LET cols == SelectSeq(fields, LAMBDA f : f.fieldtype # "Table" /\ f.fieldtype \in typeMap)
  IN  [cols |-> FieldNames(cols),
       notnull |-> { cols[i].fieldname : i \in { j \in DOMAIN cols : cols[j].required } },
       fks |-> { cols[i].fieldname :
                   i \in { j \in DOMAIN cols : cols[j].fieldtype = "Link" /\ cols[j].target # "" } }]

\* #createTable / #runCreateTableQuery: CREATE TABLE tableName from the
\* schema's fields
createTable(tables, schemaName, tableName, fields) ==
  IF tables[tableName].exists
    THEN [ok |-> FALSE, tables |-> tables]
    ELSE LET b == buildColumnForTable(fields)
         IN  [ok |-> TRUE,
              tables |-> [tables EXCEPT ![tableName] =
                            [exists |-> TRUE, cols |-> b.cols, notnull |-> b.notnull,
                             fks |-> b.fks, rows |-> <<>>]]]

\* #tableExists
tableExists(tables, schemaName) == tables[schemaName].exists

\* #getTableColumns: PRAGMA table_info (no rows for a missing table)
getTableColumns(tables, schemaName) == tables[schemaName].cols

\* #getForeignKeys: PRAGMA foreign_key_list
getForeignKeys(tables, schemaName) == tables[schemaName].fks

\* #getColumnDiff
getColumnDiff(tables, schemaName, fields) ==
  LET tableColumns == getTableColumns(tables, schemaName)
  IN  [added |-> SelectSeq(fields, LAMBDA f :
                     IndexOf(tableColumns, f.fieldname) = 0 /\ f.fieldtype \in typeMap),
       removed |-> SelectSeq(tableColumns, LAMBDA c :
                     IndexOf(FieldNames(fields), c) = 0)]

\* #getNewForeignKeys
getNewForeignKeys(tables, schemaName, fields) ==
  SelectSeq(fields, LAMBDA f :
     f.fieldtype = "Link" /\ f.fieldname \notin getForeignKeys(tables, schemaName))

\* the ALTER TABLE statements of #alterTable: one ADD COLUMN per added field;
\* rejected when the table is missing, a column exists already, or a NOT NULL
\* column is added
alterTableAdd(tables, schemaName, added) ==
  LET table == tables[schemaName]
      b == buildColumnForTable(added)
  IN  IF added = <<>>
        THEN [ok |-> TRUE, tables |-> tables]
        ELSE IF \/ ~table.exists
                \/ SeqRange(b.cols) \cap SeqRange(table.cols) # {}
                \/ b.notnull # {}
          THEN [ok |-> FALSE, tables |-> tables]
          ELSE [ok |-> TRUE,
                tables |-> [tables EXCEPT ![schemaName] =
                   [table EXCEPT !.cols = table.cols \o b.cols,
                                 !.rows = [i \in DOMAIN table.rows |->
                                    [c \in SeqRange(table.cols \o b.cols) |->
                                       IF c \in DOMAIN table.rows[i]
                                         THEN table.rows[i][c] ELSE 0]]]]]

\* Array.prototype.slice(start, end)
slice(q, start, end) ==
  LET e == IF end < Len(q) THEN end ELSE Len(q)
  IN  IF e <= start THEN <<>> ELSE [j \in 1..(e - start) |-> q[start + j]]

\* the rows the i-th pass of prestigeTheTable's loop inserts
rowSlice(tableRows, i) == slice(tableRows, i * max, i + 1 * max)

(***************************************************************************)
(* migrate() as a process                                                  *)
(*                                                                         *)
(* Thread 0 runs migrate(); every awaited statement is one step.  A call   *)
(* of #removeColumns is not awaited by #alterTable, and the call of        *)
(* prestigeTheTable it makes is not awaited either: it runs as a thread of *)
(* its own whose statements interleave with those of thread 0.             *)
(***************************************************************************)
\* floating #removeColumns calls alive at one time
MaxTasks == 2

Tasks == 1..MaxTasks
Threads == {0} \cup Tasks

PhysNames == {"Account", "Item", "__Item", "TEMPItem"}

FreeThread == [pc |-> "free", rows |-> <<>>, i |-> 0]

NoDiff == [added |-> <<>>, removed |-> <<>>]

\* the value row i of the Item table holds in column c before migrate():
\* every b is set, acc names the Account row 7 except that a Data column acc
\* names nothing in row 1
OrigVal(c, i) ==
  CASE c = "name" -> i
    [] c = "a"    -> 100 + i
    [] c = "b"    -> 500 + i
    [] c = "acc"  -> IF i = 1 /\ FAccD \in SeqRange(cfg.old) THEN 9 ELSE 7
    [] OTHER      -> 0

\* the tables an earlier release left behind
InitialTables(old, n) ==
  LET b == buildColumnForTable(old)
      a == buildColumnForTable(AccountFields)
  IN  [p \in PhysNames |->
        IF old = <<>> THEN NoTable
        ELSE CASE p = "Account" ->
                    [exists |-> TRUE, cols |-> a.cols, notnull |-> a.notnull, fks |-> a.fks,
                     rows |-> << [c \in SeqRange(a.cols) |-> 7] >>]
               [] p = "Item" ->
                    [exists |-> TRUE, cols |-> b.cols, notnull |-> b.notnull, fks |-> b.fks,
                     rows |-> [i \in 1..n |->
                                 [c \in SeqRange(b.cols) |-> OrigVal(c, i)]]]
               [] OTHER -> NoTable]

NoMig == [run |-> 0, k |-> 0, diff |-> NoDiff, newForeignKeys |-> <<>>,
          fallback |-> FALSE, copied |-> FALSE, rebuilds |-> 0, rebuilt |-> FALSE,
          after |-> <<>>]

MigrateStart ==
  /\ cfg \in [old : OldVersions \cup {<<>>}, new : ItemVersions, n : RowCounts]
  /\ cfg.old = <<>> => cfg.n = 0
  /\ tbl = InitialTables(cfg.old, cfg.n)
  /\ fkOn = TRUE
  /\ txn = [active |-> FALSE, snap |-> <<>>]
  /\ th = [t \in Threads |-> IF t = 0 THEN [FreeThread EXCEPT !.pc = "idle"] ELSE FreeThread]
  /\ mig = NoMig

schemaNameOf(m) == migSchemaNames[m.k]

tempName(schemaName) == "__" \o schemaName

\* thread t ends with an error: migrate() rejects, a floating call fails
Throw(t) == IF t = 0 THEN "rejected" ELSE "failed"

\* migrate()'s loop goes on to the next schema, or to commit() and
\* #initializeSingles() after the last one
NextSchema(m) ==
  IF m.k < Len(migSchemaNames)
    THEN [pc |-> "tableExists", mig |-> [m EXCEPT !.k = m.k + 1, !.diff = NoDiff, !.newForeignKeys = <<>>]]
    ELSE [pc |-> "commit", mig |-> [m EXCEPT !.diff = NoDiff, !.newForeignKeys = <<>>]]

\* a caller calls migrate(), a second time once the first call has resolved
\* and before any call of record access
migrate ==
  /\ th[0].pc \in {"idle", "resolved"}
  /\ last = NoCall
  /\ mig.run < MaxRuns
  /\ mig' = [mig EXCEPT !.run = mig.run + 1, !.k = 1]
  /\ th' = [th EXCEPT ![0].pc = "tableExists"]
  /\ UNCHANGED <<crudVars, sinVars, cfg, tbl, fkOn, txn>>

\* await this.#tableExists(schemaName)
M_tableExists ==
  /\ th[0].pc = "tableExists"
  /\ th' = [th EXCEPT ![0].pc =
              IF tableExists(tbl, schemaNameOf(mig)) THEN "getColumnDiff" ELSE "createTable"]
  /\ UNCHANGED <<crudVars, sinVars, cfg, tbl, fkOn, txn, mig>>

\* await this.#createTable(schemaName)
M_createTable ==
  /\ th[0].pc = "createTable"
  /\ LET r == createTable(tbl, schemaNameOf(mig), schemaNameOf(mig), Fields(schemaNameOf(mig)))
         nx == NextSchema(mig)
     IN  /\ tbl' = r.tables
         /\ th' = [th EXCEPT ![0].pc = IF r.ok THEN nx.pc ELSE Throw(0)]
         /\ mig' = IF r.ok THEN nx.mig ELSE mig
  /\ UNCHANGED <<crudVars, sinVars, cfg, fkOn, txn>>

\* #alterTable: await this.#getColumnDiff(schemaName)
M_getColumnDiff ==
  /\ th[0].pc = "getColumnDiff"
  /\ mig' = [mig EXCEPT !.diff = getColumnDiff(tbl, schemaNameOf(mig), Fields(schemaNameOf(mig)))]
  /\ th' = [th EXCEPT ![0].pc = "getNewForeignKeys"]
  /\ UNCHANGED <<crudVars, sinVars, cfg, tbl, fkOn, txn>>

\* #alterTable: await this.#getNewForeignKeys(schemaName)
M_getNewForeignKeys ==
  /\ th[0].pc = "getNewForeignKeys"
  /\ mig' = [mig EXCEPT !.newForeignKeys =
                getNewForeignKeys(tbl, schemaNameOf(mig), Fields(schemaNameOf(mig)))]
  /\ th' = [th EXCEPT ![0].pc = "alterTable"]
  /\ UNCHANGED <<crudVars, sinVars, cfg, tbl, fkOn, txn>>

\* #alterTable: knex.schema.table(...).then(...).  The builder callback
\* starts #removeColumns without awaiting it when a column is to be removed,
\* then the ADD COLUMN statements run; the foreign keys follow
alterTable ==
  /\ th[0].pc = "alterTable"
  /\ LET r == alterTableAdd(tbl, schemaNameOf(mig), mig.diff.added)
         spawn == mig.diff.removed # <<>>
         free == { t \in Tasks : th[t].pc \in {"free", "done", "failed"} }
         t == CHOOSE x \in free : \A y \in free : x <= y
         nx == NextSchema(mig)
         pc0 == IF ~r.ok THEN Throw(0)
                ELSE IF mig.newForeignKeys # <<>> THEN "A_fkOff" ELSE nx.pc
     IN  /\ spawn => free # {}
         /\ tbl' = r.tables
         /\ th' = IF spawn
                    THEN [th EXCEPT ![0].pc = pc0, ![t] = [FreeThread EXCEPT !.pc = "R_getAll"]]
                    ELSE [th EXCEPT ![0].pc = pc0]
         /\ mig' = LET m == IF r.ok /\ mig.newForeignKeys = <<>> THEN nx.mig ELSE mig
                   IN  [m EXCEPT !.rebuilt = mig.rebuilt \/ (spawn /\ mig.run > 1)]
  /\ UNCHANGED <<crudVars, sinVars, cfg, fkOn, txn>>

\* #removeColumns: await this.getAll(schemaName, {fields}), then the call of
\* prestigeTheTable
R_getAll ==
  \E t \in Tasks :
    /\ th[t].pc = "R_getAll"
    /\ LET fields == SelectSeq(Fields("Item"), LAMBDA f : f.fieldtype # "Table")
           r == SelectRows(tbl, "Item", FieldNames(fields))
       IN  th' = [th EXCEPT ![t] = IF r.ok
                                     THEN [pc |-> "P_dropTemp", rows |-> r.rows, i |-> 0]
                                     ELSE [FreeThread EXCEPT !.pc = Throw(t)]]
    /\ UNCHANGED <<crudVars, sinVars, cfg, tbl, fkOn, txn, mig>>

\* #addForeignKeys: PRAGMA foreign_keys=OFF
A_fkOff ==
  /\ th[0].pc = "A_fkOff"
  /\ fkOn' = Pragma(FALSE)
  /\ th' = [th EXCEPT ![0].pc = "A_begin"]
  /\ UNCHANGED <<crudVars, sinVars, cfg, tbl, txn, mig>>

\* #addForeignKeys: BEGIN TRANSACTION
A_begin ==
  /\ th[0].pc = "A_begin"
  /\ IF txn.active
       THEN th' = [th EXCEPT ![0].pc = Throw(0)] /\ UNCHANGED txn
       ELSE th' = [th EXCEPT ![0].pc = "A_createTemp"] /\ txn' = [active |-> TRUE, snap |-> tbl]
  /\ UNCHANGED <<crudVars, sinVars, cfg, tbl, fkOn, mig>>

\* #addForeignKeys: await this.#createTable(schemaName, tempName)
A_createTemp ==
  /\ th[0].pc = "A_createTemp"
  /\ LET r == createTable(tbl, "Item", "TEMPItem", Fields("Item"))
     IN  /\ tbl' = r.tables
         /\ th' = [th EXCEPT ![0].pc = IF r.ok THEN "A_copy" ELSE Throw(0)]
  /\ UNCHANGED <<crudVars, sinVars, cfg, fkOn, txn, mig>>

\* #addForeignKeys: knex(tempName).insert(knex.select().from(schemaName)),
\* caught when it fails
A_copy ==
  /\ th[0].pc = "A_copy"
  /\ LET r == InsertSelectAll(tbl, "TEMPItem", "Item", fkOn)
     IN  /\ tbl' = r.tables
         /\ th' = [th EXCEPT ![0].pc = IF r.ok THEN "A_dropOld" ELSE "C_rollback"]
         /\ mig' = [mig EXCEPT !.fallback = mig.fallback \/ ~r.ok,
                               !.copied = mig.copied \/ r.ok]
  /\ UNCHANGED <<crudVars, sinVars, cfg, fkOn, txn>>

\* #addForeignKeys: drop old table
A_dropOld ==
  /\ th[0].pc = "A_dropOld"
  /\ LET r == DropTable(tbl, "Item")
     IN  /\ tbl' = r.tables
         /\ th' = [th EXCEPT ![0].pc = IF r.ok THEN "A_rename" ELSE Throw(0)]
  /\ UNCHANGED <<crudVars, sinVars, cfg, fkOn, txn, mig>>

\* #addForeignKeys: rename new table
A_rename ==
  /\ th[0].pc = "A_rename"
  /\ LET r == RenameTable(tbl, "TEMPItem", "Item")
     IN  /\ tbl' = r.tables
         /\ th' = [th EXCEPT ![0].pc = IF r.ok THEN "A_commit" ELSE Throw(0)]
  /\ UNCHANGED <<crudVars, sinVars, cfg, fkOn, txn, mig>>

\* #addForeignKeys: COMMIT
A_commit ==
  /\ th[0].pc = "A_commit"
  /\ IF txn.active
       THEN th' = [th EXCEPT ![0].pc = "A_fkOn"] /\ txn' = [active |-> FALSE, snap |-> <<>>]
       ELSE th' = [th EXCEPT ![0].pc = Throw(0)] /\ UNCHANGED txn
  /\ UNCHANGED <<crudVars, sinVars, cfg, tbl, fkOn, mig>>

\* #addForeignKeys: PRAGMA foreign_keys=ON at the end of the success path
A_fkOn ==
  /\ th[0].pc = "A_fkOn"
  /\ fkOn' = Pragma(TRUE)
  /\ th' = [th EXCEPT ![0].pc = NextSchema(mig).pc]
  /\ mig' = NextSchema(mig).mig
  /\ UNCHANGED <<crudVars, sinVars, cfg, tbl, txn>>

\* #addForeignKeys, catch: ROLLBACK
C_rollback ==
  /\ th[0].pc = "C_rollback"
  /\ IF txn.active
       THEN /\ tbl' = txn.snap
            /\ txn' = [active |-> FALSE, snap |-> <<>>]
            /\ th' = [th EXCEPT ![0].pc = "C_fkOn"]
       ELSE /\ th' = [th EXCEPT ![0].pc = Throw(0)]
            /\ UNCHANGED <<tbl, txn>>
  /\ UNCHANGED <<crudVars, sinVars, cfg, fkOn, mig>>

\* #addForeignKeys, catch: PRAGMA foreign_keys=ON
C_fkOn ==
  /\ th[0].pc = "C_fkOn"
  /\ fkOn' = Pragma(TRUE)
  /\ th' = [th EXCEPT ![0].pc = "C_select"]
  /\ UNCHANGED <<crudVars, sinVars, cfg, tbl, txn, mig>>

\* #addForeignKeys, catch: rows = knex.select().from(schemaName), then the
\* awaited call of prestigeTheTable
C_select ==
  /\ th[0].pc = "C_select"
  /\ LET r == SelectRows(tbl, "Item", tbl["Item"].cols)
     IN  th' = [th EXCEPT ![0] = IF r.ok
                                   THEN [pc |-> "P_dropTemp", rows |-> r.rows, i |-> 0]
                                   ELSE [FreeThread EXCEPT !.pc = Throw(0)]]
  /\ mig' = [mig EXCEPT !.rebuilt = mig.rebuilt \/ mig.run > 1,
                        !.rebuilds = mig.rebuilds + 1]
  /\ UNCHANGED <<crudVars, sinVars, cfg, tbl, fkOn, txn>>

\* prestigeTheTable: knex.schema.dropTableIfExists(tempName)
P_dropTemp ==
  \E t \in Threads :
    /\ th[t].pc = "P_dropTemp"
    /\ tbl' = DropTable(tbl, tempName("Item")).tables
    /\ th' = [th EXCEPT ![t].pc = "P_fkOff"]
    /\ UNCHANGED <<crudVars, sinVars, cfg, fkOn, txn, mig>>

\* prestigeTheTable: PRAGMA foreign_keys=OFF
P_fkOff ==
  \E t \in Threads :
    /\ th[t].pc = "P_fkOff"
    /\ fkOn' = Pragma(FALSE)
    /\ th' = [th EXCEPT ![t].pc = "P_createTemp"]
    /\ UNCHANGED <<crudVars, sinVars, cfg, tbl, txn, mig>>

\* prestigeTheTable: await this.#createTable(schemaName, tempName)
P_createTemp ==
  \E t \in Threads :
    /\ th[t].pc = "P_createTemp"
    /\ LET r == createTable(tbl, "Item", tempName("Item"), Fields("Item"))
       IN  /\ tbl' = r.tables
           /\ th' = [th EXCEPT ![t] = IF r.ok THEN [th[t] EXCEPT !.pc = "P_insert"]
                                              ELSE [FreeThread EXCEPT !.pc = Throw(t)]]
    /\ UNCHANGED <<crudVars, sinVars, cfg, fkOn, txn, mig>>

\* knex.batchInsert: the insert runs in a transaction of its own, which the
\* engine refuses to begin inside an open one
batchInsert(tables, name, rows) ==
  IF txn.active
    THEN [ok |-> FALSE, tables |-> tables]
    ELSE InsertRows(tables, name, rows, fkOn)

\* prestigeTheTable: one awaited batchInsert, the i-th pass of the loop for
\* more than 200 rows and the single insert otherwise
P_insert ==
  \E t \in Threads :
    /\ th[t].pc = "P_insert"
    /\ LET tableRows == th[t].rows
           i == th[t].i
           batched == Len(tableRows) > max
           fi == Len(tableRows) \div max
           r == batchInsert(tbl, tempName("Item"),
                            IF batched THEN rowSlice(tableRows, i) ELSE tableRows)
           more == batched /\ i + 1 <= fi /\ rowSlice(tableRows, i + 1) # <<>>
       IN  /\ tbl' = r.tables
           /\ th' = [th EXCEPT ![t] =
                       IF ~r.ok THEN [FreeThread EXCEPT !.pc = Throw(t)]
                       ELSE IF more THEN [th[t] EXCEPT !.i = i + 1]
                       ELSE [th[t] EXCEPT !.pc = "P_dropOld"]]
    /\ UNCHANGED <<crudVars, sinVars, cfg, fkOn, txn, mig>>

\* prestigeTheTable: knex.schema.dropTable(schemaName)
P_dropOld ==
  \E t \in Threads :
    /\ th[t].pc = "P_dropOld"
    /\ LET r == DropTable(tbl, "Item")
       IN  /\ tbl' = r.tables
           /\ th' = [th EXCEPT ![t] = IF r.ok THEN [th[t] EXCEPT !.pc = "P_rename"]
                                              ELSE [FreeThread EXCEPT !.pc = Throw(t)]]
    /\ UNCHANGED <<crudVars, sinVars, cfg, fkOn, txn, mig>>

\* prestigeTheTable: knex.schema.renameTable(tempName, schemaName)
P_rename ==
  \E t \in Threads :
    /\ th[t].pc = "P_rename"
    /\ LET r == RenameTable(tbl, tempName("Item"), "Item")
       IN  /\ tbl' = r.tables
           /\ th' = [th EXCEPT ![t] = IF r.ok THEN [th[t] EXCEPT !.pc = "P_fkOn"]
                                              ELSE [FreeThread EXCEPT !.pc = Throw(t)]]
    /\ UNCHANGED <<crudVars, sinVars, cfg, fkOn, txn, mig>>

\* prestigeTheTable: PRAGMA foreign_keys=ON; #addForeignKeys returns to
\* migrate()'s loop, a floating call ends
P_fkOn ==
  \E t \in Threads :
    /\ th[t].pc = "P_fkOn"
    /\ fkOn' = Pragma(TRUE)
    /\ th' = [th EXCEPT ![t] = [FreeThread EXCEPT !.pc =
                                  IF t = 0 THEN NextSchema(mig).pc ELSE "done"]]
    /\ mig' = IF t = 0 THEN NextSchema(mig).mig ELSE mig
    /\ UNCHANGED <<crudVars, sinVars, cfg, tbl, txn>>

\* migrate(): await this.commit(); await this.#initializeSingles(); the
\* promise resolves.  mig.after records the tables as the first run left
\* them, mig.rebuilt whether a later run started a table rebuild, and
\* mig.rebuilds the calls of prestigeTheTable that #addForeignKeys made
commit ==
  /\ th[0].pc = "commit"
  /\ th' = [th EXCEPT ![0].pc = "resolved"]
  /\ mig' = [mig EXCEPT !.after = IF mig.run = 1 THEN tbl ELSE mig.after]
  /\ UNCHANGED <<crudVars, sinVars, cfg, tbl, fkOn, txn>>

NextMigrate ==
  \/ migrate \/ M_tableExists \/ M_createTable \/ M_getColumnDiff
  \/ M_getNewForeignKeys \/ alterTable \/ R_getAll
  \/ A_fkOff \/ A_begin \/ A_createTemp \/ A_copy \/ A_dropOld \/ A_rename
  \/ A_commit \/ A_fkOn \/ C_rollback \/ C_fkOn \/ C_select
  \/ P_dropTemp \/ P_fkOff \/ P_createTemp \/ P_insert \/ P_dropOld
  \/ P_rename \/ P_fkOn \/ commit

(***************************************************************************)
(* Record access on the migrated tables                                    *)
(*                                                                         *)
(* Once migrate() has resolved a caller makes one call of insert, update,  *)
(* delete or rename on the Account or the Item table; every call is one    *)
(* statement (no Table field value is passed).  The engine checks foreign  *)
(* keys only while checking is on, and only then runs the ON UPDATE        *)
(* CASCADE and ON DELETE RESTRICT actions of #buildColumnForTable.         *)
(* last records the call: the tables before it and after it.               *)
(***************************************************************************)
\* the names a caller uses for Account rows and for Link values (0: NULL);
\* 7 is the Account row an earlier release stored
AccountNames == {7, 8}
LinkValues == {0, 7, 8, 9}
\* the names a caller uses for Item rows: update names a stored row, insert
\* a new one
StoredItems == {1}
NewItems == {900}

\* some row of a table with a foreign key column holds name in that column
Referenced(tables, name) ==
  \E p \in PhysNames :
    /\ tables[p].exists
    /\ \E c \in tables[p].fks : \E i \in DOMAIN tables[p].rows : tables[p].rows[i][c] = name

\* DELETE FROM table WHERE name = ?; ON DELETE RESTRICT rejects it for a
\* referenced Account row while checking is on
DeleteRow(tables, table, name, checking) ==
  LET t == tables[table]
      hit == \E i \in DOMAIN t.rows : t.rows[i]["name"] = name
  IN  IF \/ ~t.exists
         \/ checking /\ table = "Account" /\ hit /\ Referenced(tables, name)
        THEN [ok |-> FALSE, tables |-> tables]
        ELSE [ok |-> TRUE,
              tables |-> [tables EXCEPT ![table].rows =
                            SelectSeq(t.rows, LAMBDA r : r["name"] # name)]]

\* an UPDATE of the name that leaves the referencing values alone
UpdateName_plain(tables, table, oldName, newName, checking) ==
  LET t == tables[table]
      hit == \E i \in DOMAIN t.rows : t.rows[i]["name"] = oldName
      used == \E i \in DOMAIN t.rows : t.rows[i]["name"] = newName
  IN  IF ~t.exists \/ (hit /\ used /\ newName # oldName)
        THEN [ok |-> FALSE, tables |-> tables]
        ELSE [ok |-> TRUE,
              tables |-> [tables EXCEPT ![table].rows =
                            [i \in DOMAIN t.rows |->
                               IF t.rows[i]["name"] = oldName
                                 THEN [t.rows[i] EXCEPT !["name"] = newName]
                                 ELSE t.rows[i]]]]

\* UPDATE table SET name = newName WHERE name = oldName; a primary key in use
\* rejects it, ON UPDATE CASCADE rewrites the referencing values while
\* checking is on
UpdateName(tables, table, oldName, newName, checking) ==
  LET t == tables[table]
      hit == \E i \in DOMAIN t.rows : t.rows[i]["name"] = oldName
      used == \E i \in DOMAIN t.rows : t.rows[i]["name"] = newName
      renamed == [tables EXCEPT ![table].rows =
                    [i \in DOMAIN t.rows |->
                       IF t.rows[i]["name"] = oldName
                         THEN [t.rows[i] EXCEPT !["name"] = newName]
                         ELSE t.rows[i]]]
      cascaded == [p \in PhysNames |->
                    IF ~renamed[p].exists THEN renamed[p]
                    ELSE [renamed[p] EXCEPT !.rows =
                            [i \in DOMAIN renamed[p].rows |->
                               [c \in DOMAIN renamed[p].rows[i] |->
                                  IF c \in renamed[p].fks /\ renamed[p].rows[i][c] = oldName
                                    THEN newName
                                    ELSE renamed[p].rows[i][c]]]]]
  IN  IF ~t.exists \/ (hit /\ used /\ newName # oldName)
        THEN [ok |-> FALSE, tables |-> tables]
        ELSE IF ~hit
          THEN [ok |-> TRUE, tables |-> tables]
          ELSE [ok |-> TRUE,
                tables |-> IF checking /\ table = "Account" THEN cascaded ELSE renamed]

\* UPDATE table SET column = value WHERE name = ?; a missing column, or a
\* dangling foreign key while checking is on, rejects it
UpdateRows(tables, table, name, column, value, checking) ==
  LET t == tables[table]
      rows == [i \in DOMAIN t.rows |->
                 IF t.rows[i]["name"] = name
                   THEN [t.rows[i] EXCEPT ![column] = value]
                   ELSE t.rows[i]]
  IN  IF \/ ~t.exists
         \/ IndexOf(t.cols, column) = 0
         \/ \E i \in DOMAIN rows : /\ rows[i]["name"] = name
                                  /\ value = 0 /\ column \in t.notnull
         \/ checking /\ \E i \in DOMAIN rows : /\ rows[i]["name"] = name
                                               /\ FkViolated(tables, t, rows[i])
        THEN [ok |-> FALSE, tables |-> tables]
        ELSE [ok |-> TRUE, tables |-> [tables EXCEPT ![table].rows = rows]]

\* the validMap #insertOne builds for an Item: a key per non-Table field of
\* the schema, an undefined value is stored as NULL
itemValidMap(name, acc) ==
  LET fields == SelectSeq(Fields("Item"), LAMBDA f : f.fieldtype # "Table")
  IN  [c \in SeqRange(FieldNames(fields)) |->
         CASE c = "name" -> name
           [] c = "a"    -> 1
           [] c = "acc"  -> acc
           [] OTHER      -> 0]

\* the record of a call the caller has gone on from
Went == [op |-> "went"]

\* the record of a call: its arguments, its outcome, whether foreign-key
\* checking was on, the tables before it and after it
Called(op, schemaName, name, value, r) ==
  [op |-> op, schemaName |-> schemaName, name |-> name, value |-> value,
   ok |-> r.ok, checking |-> fkOn, prior |-> tbl, after |-> r.tables]

\* insert('Account', {name})
L_insertTarget ==
  \E name \in AccountNames :
    /\ th[0].pc = "resolved"
    /\ last = NoCall
    /\ LET r == InsertRows(tbl, "Account", << [c \in {"name"} |-> name] >>, fkOn)
       IN  /\ tbl' = r.tables
           /\ last' = Called("insert", "Account", name, 0, r)
    /\ UNCHANGED <<db, sinVars, cfg, fkOn, txn, th, mig>>

\* insert('Item', {name, a, acc}) with the Link value acc
L_insert ==
  \E name \in NewItems, acc \in LinkValues :
    /\ th[0].pc = "resolved"
    /\ last \in {NoCall, Went}
    /\ LET r == InsertRows(tbl, "Item", << itemValidMap(name, acc) >>, fkOn)
       IN  /\ tbl' = r.tables
           /\ last' = Called("insert", "Item", name, acc, r)
    /\ UNCHANGED <<db, sinVars, cfg, fkOn, txn, th, mig>>

\* update('Item', {name, acc})
L_update ==
  \E name \in StoredItems, acc \in LinkValues :
    /\ th[0].pc = "resolved"
    /\ last \in {NoCall, Went}
    /\ LET r == UpdateRows(tbl, "Item", name, "acc", acc, fkOn)
       IN  /\ tbl' = r.tables
           /\ last' = Called("update", "Item", name, acc, r)
    /\ UNCHANGED <<db, sinVars, cfg, fkOn, txn, th, mig>>

\* delete('Account', name): #deleteOne; Account has no Table field
L_delete ==
  \E name \in AccountNames :
    /\ th[0].pc = "resolved"
    /\ last \in {NoCall, Went}
    /\ LET r == DeleteRow(tbl, "Account", name, fkOn)
       IN  /\ tbl' = r.tables
           /\ last' = Called("delete", "Account", name, 0, r)
    /\ UNCHANGED <<db, sinVars, cfg, fkOn, txn, th, mig>>

\* rename('Account', oldName, newName)
L_rename ==
  \E oldName \in AccountNames, newName \in AccountNames :
    /\ oldName # newName
    /\ th[0].pc = "resolved"
    /\ last \in {NoCall, Went}
    /\ LET r == UpdateName(tbl, "Account", oldName, newName, fkOn)
       IN  /\ tbl' = r.tables
           /\ last' = Called("rename", "Account", oldName, newName, r)
    /\ UNCHANGED <<db, sinVars, cfg, fkOn, txn, th, mig>>

\* DELETE FROM table: every row; ON DELETE RESTRICT rejects the statement
\* when a row of Account is referenced while checking is on
DeleteAll(tables, table, checking) ==
  LET t == tables[table]
  IN  IF \/ ~t.exists
         \/ /\ checking /\ table = "Account"
            /\ \E i \in DOMAIN t.rows : Referenced(tables, t.rows[i]["name"])
        THEN [ok |-> FALSE, tables |-> tables]
        ELSE [ok |-> TRUE, tables |-> [tables EXCEPT ![table].rows = <<>>]]

\* the loop of truncate: one awaited del() per name, the first rejected one
\* ends the call and leaves the earlier ones done
RECURSIVE truncateLoop(_, _, _)
truncateLoop(tables, tableNames, checking) ==
  IF tableNames = <<>>
    THEN [ok |-> TRUE, tables |-> tables]
    ELSE LET r == DeleteAll(tables, Head(tableNames), checking)
         IN  IF r.ok THEN truncateLoop(r.tables, Tail(tableNames), checking) ELSE r

\* the answers of select name from sqlite_schema where type = 'table': the
\* tables that exist, in an order the statement does not fix
UserTables(tables) ==
  LET S == { p \in PhysNames : tables[p].exists }
  IN  { q \in [1 .. Cardinality(S) -> S] : \A i, j \in DOMAIN q : q[i] = q[j] => i = j }

\* the table names a caller passes to truncate
TruncateArgs == { <<"Account">>, <<"Item">> }

\* truncate() and truncate(tableNames)
L_truncate ==
  /\ th[0].pc = "resolved"
  /\ last \in {NoCall, Went}
  /\ \E given \in BOOLEAN :
       \E tableNames \in (IF given THEN TruncateArgs ELSE UserTables(tbl)) :
         LET r == truncateLoop(tbl, tableNames, fkOn)
         IN  /\ tbl' = r.tables
             /\ last' = Called("truncate", "", tableNames, given, r)
  /\ UNCHANGED <<db, sinVars, cfg, fkOn, txn, th, mig>>

\* the caller goes on from an insert('Account', ...) to one more call
L_forget ==
  /\ last \notin {NoCall, Went}
  /\ last.op = "insert" /\ last.schemaName = "Account" /\ last.ok
  /\ last' = Went
  /\ UNCHANGED <<db, sinVars, migVars>>

\* the behaviour ends with the call it records
\* no call is recorded, or the caller has gone on from it
Going == last \in {NoCall, Went}

NextLink ==
  \/ Going /\ migrate
  \/ Going /\ M_tableExists
  \/ Going /\ M_createTable
  \/ Going /\ M_getColumnDiff
  \/ Going /\ M_getNewForeignKeys
  \/ Going /\ alterTable
  \/ Going /\ R_getAll
  \/ Going /\ A_fkOff
  \/ Going /\ A_begin
  \/ Going /\ A_createTemp
  \/ Going /\ A_copy
  \/ Going /\ A_dropOld
  \/ Going /\ A_rename
  \/ Going /\ A_commit
  \/ Going /\ A_fkOn
  \/ Going /\ C_rollback
  \/ Going /\ C_fkOn
  \/ Going /\ C_select
  \/ Going /\ P_dropTemp
  \/ Going /\ P_fkOff
  \/ Going /\ P_createTemp
  \/ Going /\ P_insert
  \/ Going /\ P_dropOld
  \/ Going /\ P_rename
  \/ Going /\ P_fkOn
  \/ Going /\ commit
  \/ L_insertTarget \/ L_insert \/ L_update \/ L_delete \/ L_rename \/ L_forget
  \/ L_truncate

(***************************************************************************)
(* The outside-click directive                                             *)
(*                                                                         *)
(* db holds the page: instances is the module's list of click handlers     *)
(* (the handler made for element el is el, it closes over el and its       *)
(* callback), index the data-outside-click-index of every element,         *)
(* listeners the click listeners of the document, mounted the elements the *)
(* framework has mounted and not unmounted.  last records the last call.   *)
(***************************************************************************)
\* elements that carry the directive
MaxElements == 4
Elements == 1..MaxElements
\* the click target that lies in no element
Outside == 0

\* Array.prototype.splice(index, 1)
splice(q, index) ==
  IF index + 1 \in DOMAIN q
    THEN [j \in 1..(Len(q) - 1) |-> IF j <= index THEN q[j] ELSE q[j + 1]]
    ELSE q

\* a removal of the listener at unmount
unmountedListeners_removed(listeners, instances, index) ==
  IF index + 1 \in DOMAIN instances THEN listeners \ {instances[index + 1]} ELSE listeners

\* unmounted: document.addEventListener('click', handler); a handler that
\* is a listener already is not added again, undefined is not added
unmountedListeners(listeners, instances, index) ==
  IF index + 1 \in DOMAIN instances THEN listeners \cup {instances[index + 1]} ELSE listeners

\* the framework mounts an element that was never mounted
beforeMount ==
  \E el \in Elements :
    /\ db.index[el] = NoIdx
    /\ db' = [db EXCEPT !.index[el] = Len(db.instances),
                         !.listeners = db.listeners \cup {el},
                         !.instances = Append(db.instances, el),
                         !.mounted = db.mounted \cup {el}]
    /\ last' = [op |-> "beforeMount", el |-> el, invoked |-> {}]
    /\ UNCHANGED <<migVars, sinVars>>

\* the framework unmounts a mounted element
unmounted ==
  \E el \in db.mounted :
    /\ LET index == db.index[el]
       IN  db' = [db EXCEPT !.listeners = unmountedListeners(db.listeners, db.instances, index),
                            !.instances = splice(db.instances, index),
                            !.mounted = db.mounted \ {el}]
    /\ last' = [op |-> "unmounted", el |-> el, invoked |-> {}]
    /\ UNCHANGED <<migVars, sinVars>>

\* a click on the document: every listener runs onDocumentClick, which
\* invokes the callback of its element unless the target is that element
onDocumentClick ==
  \E target \in Elements \cup {Outside} :
    /\ last' = [op |-> "click", el |-> target,
                invoked |-> { el \in db.listeners : el # target }]
    /\ UNCHANGED <<db, migVars, sinVars>>

NextClick == beforeMount \/ unmounted \/ onDocumentClick

(***************************************************************************)
(* The Singleton Value Store                                               *)
(*                                                                         *)
(* sv is the SingleValue table, a bag of rows [parent, fieldname, value]   *)
(* (the synthetic name and the meta columns carry no behaviour).           *)
(* Every awaited statement of a call is one step, so calls of different    *)
(* callers interleave.  #updateSingleValue calls #insertSingleValue        *)
(* without awaiting it: the INSERT is left floating in floats and reaches  *)
(* the table at some later step.                                           *)
(***************************************************************************)
\* callers that may have a call in flight at one time
MaxProcs == 2
\* calls started in one behaviour
MaxCalls == 3

Procs == 1..MaxProcs

\* the singleton schemas in schema-map order, and their fields with the
\* declared default (Undef: none)
singleSchemaNames == <<"Settings", "Sys">>

singleFields ==
  [Settings |-> << [fieldname |-> "f", default |-> Undef],
                   [fieldname |-> "g", default |-> "dg"] >>,
   Sys      |-> << [fieldname |-> "h", default |-> "dh"] >>]

SingleValues == {"v1", "v2"}

singleFieldNames(schemaName) ==
  { singleFields[schemaName][i].fieldname : i \in DOMAIN singleFields[schemaName] }

\* the maps a caller passes to insert or update on a singleton schema
SingleMaps(schemaName) ==
  [singleFieldNames(schemaName) -> SingleValues \cup {Undef}]

IdleCall == [op |-> "none", pc |-> "idle", schemaName |-> "", k |-> 0, todo |-> <<>>,
             map |-> <<>>, before |-> EmptyBag]

NoRet == [op |-> "none", schemaName |-> "", map |-> <<>>, before |-> EmptyBag]

\* #singleExists
singleExists(rows, singleSchemaName) ==
  \E r \in BagToSet(rows) : r.parent = singleSchemaName

\* the rows WHERE parent = singleSchemaName AND fieldname = fieldname
matching(rows, singleSchemaName, fieldname) ==
  { r \in BagToSet(rows) : r.parent = singleSchemaName /\ r.fieldname = fieldname }

\* the rows other than those of a set
without(rows, set) == [r \in BagToSet(rows) \ set |-> rows[r]]

\* #getSingle: getAll('SingleValue', {filters: {parent}}) folded into a map by
\* fieldname; of several rows of one fieldname one supplies the value
getSingle(rows, schemaName) ==
  LET stored == { r.fieldname : r \in { x \in BagToSet(rows) : x.parent = schemaName } }
  IN  { m \in [stored -> SingleValues \cup {"dg", "dh"}] :
          \A f \in stored : \E r \in matching(rows, schemaName, f) : r.value = m[f] }

\* #getNonExtantSingleValues
getNonExtantSingleValues(rows, singleSchemaName) ==
  LET existingFields == { r.fieldname :
                            r \in { x \in BagToSet(rows) : x.parent = singleSchemaName } }
      all == [i \in DOMAIN singleFields[singleSchemaName] |->
                [fieldname |-> singleFields[singleSchemaName][i].fieldname,
                 value |-> singleFields[singleSchemaName][i].default]]
  IN  SelectSeq(all, LAMBDA e : e.fieldname \notin existingFields /\ e.value # Undef)

\* the defaultValues #initializeSingles passes to #updateSingleValues, as the
\* writes #updateSingleValues makes of them
defaultValues(schemaName) ==
  LET all == [i \in DOMAIN singleFields[schemaName] |->
                [fieldname |-> singleFields[schemaName][i].fieldname,
                 value |-> singleFields[schemaName][i].default]]
  IN  SelectSeq(all, LAMBDA e : e.value # Undef)

\* #updateSingleValues: the writes it makes for a map, in field order
updateSingleValues(singleSchemaName, fieldValueMap) ==
  LET all == [i \in DOMAIN singleFields[singleSchemaName] |->
                [fieldname |-> singleFields[singleSchemaName][i].fieldname,
                 value |-> fieldValueMap[singleFields[singleSchemaName][i].fieldname]]]
  IN  SelectSeq(all, LAMBDA e : e.value # Undef)

\* #insertSingleValue: the INSERT statement
insertSingleValue(rows, singleSchemaName, fieldname, value) ==
  rows (+) SetToBag({[parent |-> singleSchemaName, fieldname |-> fieldname, value |-> value]})

\* #deleteSingle
deleteSingle(rows, schemaName, fieldname) ==
  without(rows, matching(rows, schemaName, fieldname))

\* the UPDATE of #updateSingleValue: every row of the key takes the value
updateSingleValue(rows, singleSchemaName, fieldname, value) ==
  LET hit == matching(rows, singleSchemaName, fieldname)
  IN  IF hit = {}
        THEN rows
        ELSE without(rows, hit) (+)
             [r \in {[parent |-> singleSchemaName, fieldname |-> fieldname, value |-> value]}
                |-> BagCardinality([x \in hit |-> rows[x]])]

SingleStart ==
  /\ sv = EmptyBag
  /\ floats = EmptyBag
  /\ call = [p \in Procs |-> IdleCall]
  /\ ret = NoRet
  /\ calls = 0

\* what the call of p does when its current series of writes is through:
\* insert and update return, #initializeSingles goes on to the next schema
Through(p, c) ==
  IF c.op = "migrate" /\ c.k < Len(singleSchemaNames)
    THEN [call |-> [c EXCEPT !.pc = "singleExists", !.k = c.k + 1, !.todo = <<>>],
          ret |-> ret]
    ELSE [call |-> IdleCall,
          ret |-> [op |-> c.op, schemaName |-> c.schemaName, map |-> c.map, before |-> c.before]]

\* the caller that makes the next call: the first one without a call in
\* flight (0: none)
FreeProc ==
  IF \E p \in Procs : call[p].pc = "idle"
    THEN CHOOSE p \in Procs : call[p].pc = "idle" /\ \A q \in Procs : call[q].pc = "idle" => p <= q
    ELSE 0

\* a caller calls insert(S, M) or update(S, M) on a singleton schema
SingleWrite ==
  \E p \in Procs, op \in {"insert", "update"}, s \in SeqRange(singleSchemaNames) :
    \E m \in SingleMaps(s) :
      /\ p = FreeProc
      /\ ret = NoRet
      /\ calls < MaxCalls
      /\ calls' = calls + 1
      /\ call' = [call EXCEPT ![p] =
                    [op |-> op, pc |-> "select", schemaName |-> s, k |-> 0,
                     todo |-> updateSingleValues(s, m), map |-> m, before |-> sv]]
      /\ UNCHANGED <<crudVars, migVars, sv, floats, ret>>

\* a caller awaits delete(S, fieldname) on a singleton schema; ret records
\* the call and whether another call was in flight when it was made
SingleDelete ==
  \E s \in SeqRange(singleSchemaNames) :
    \E f \in singleFieldNames(s) :
      /\ ret = NoRet
      /\ calls < MaxCalls
      /\ calls' = calls + 1
      /\ sv' = deleteSingle(sv, s, f)
      /\ ret' = [op |-> "delete", schemaName |-> s, map |-> f, before |-> sv,
                 alone |-> \A p \in Procs : call[p].pc = "idle"]
      /\ UNCHANGED <<crudVars, migVars, floats, call>>

\* a caller calls migrate(); with no collection schema in the map it goes
\* straight to #initializeSingles
SingleMigrate ==
  \E p \in Procs :
    /\ p = FreeProc
    /\ ret = NoRet
    /\ calls < MaxCalls
    /\ calls' = calls + 1
    /\ call' = [call EXCEPT ![p] =
                  [op |-> "migrate", pc |-> "singleExists", schemaName |-> "", k |-> 1,
                   todo |-> <<>>, map |-> <<>>, before |-> sv]]
    /\ UNCHANGED <<crudVars, migVars, sv, floats, ret>>

\* #initializeSingles: await this.#singleExists(schemaName); without stored
\* rows the declared defaults are written, if there is any
I_singleExists ==
  \E p \in Procs :
    /\ call[p].pc = "singleExists"
    /\ LET c == call[p]
           s == singleSchemaNames[c.k]
           r == IF singleExists(sv, s)
                  THEN [call |-> [c EXCEPT !.pc = "nonExtant"], ret |-> ret]
                  ELSE IF defaultValues(s) = <<>>
                    THEN Through(p, c)
                    ELSE [call |-> [c EXCEPT !.pc = "select", !.todo = defaultValues(s)],
                          ret |-> ret]
       IN  /\ call' = [call EXCEPT ![p] = r.call]
           /\ ret' = r.ret
    /\ UNCHANGED <<crudVars, migVars, sv, floats, calls>>

\* #updateNonExtantSingleValues: await this.#getNonExtantSingleValues(schemaName)
I_getNonExtant ==
  \E p \in Procs :
    /\ call[p].pc = "nonExtant"
    /\ LET c == call[p]
           todo == getNonExtantSingleValues(sv, singleSchemaNames[c.k])
           r == IF todo = <<>>
                  THEN Through(p, c)
                  ELSE [call |-> [c EXCEPT !.pc = "select", !.todo = todo], ret |-> ret]
       IN  /\ call' = [call EXCEPT ![p] = r.call]
           /\ ret' = r.ret
    /\ UNCHANGED <<crudVars, migVars, sv, floats, calls>>

\* the schema the call of p is writing
writing(c) == IF c.op = "migrate" THEN singleSchemaNames[c.k] ELSE c.schemaName

\* #updateSingleValue: the awaited SELECT of the names of the stored rows;
\* without one #insertSingleValue is called and not awaited, and
\* #updateSingleValues goes on
U_select ==
  \E p \in Procs :
    /\ call[p].pc = "select"
    /\ LET c == call[p]
       IN  IF c.todo = <<>>
             THEN /\ call' = [call EXCEPT ![p] = Through(p, c).call]
                  /\ ret' = Through(p, c).ret
                  /\ UNCHANGED floats
             ELSE IF matching(sv, writing(c), Head(c.todo).fieldname) = {}
               THEN LET d == [c EXCEPT !.todo = Tail(c.todo)]
                        r == IF d.todo = <<>> THEN Through(p, d) ELSE [call |-> d, ret |-> ret]
                    IN  /\ floats' = floats (+) SetToBag({[parent |-> writing(c),
                                                            fieldname |-> Head(c.todo).fieldname,
                                                            value |-> Head(c.todo).value]})
                        /\ call' = [call EXCEPT ![p] = r.call]
                        /\ ret' = r.ret
               ELSE /\ call' = [call EXCEPT ![p].pc = "update"]
                    /\ UNCHANGED <<crudVars, migVars, floats, ret>>
    /\ UNCHANGED <<crudVars, migVars, sv, calls>>

\* #updateSingleValue: the awaited UPDATE ... WHERE parent AND fieldname
U_update ==
  \E p \in Procs :
    /\ call[p].pc = "update"
    /\ LET c == call[p]
           d == [c EXCEPT !.pc = "select", !.todo = Tail(c.todo)]
           r == IF d.todo = <<>> THEN Through(p, d) ELSE [call |-> d, ret |-> ret]
       IN  /\ sv' = updateSingleValue(sv, writing(c), Head(c.todo).fieldname, Head(c.todo).value)
           /\ call' = [call EXCEPT ![p] = r.call]
           /\ ret' = r.ret
    /\ UNCHANGED <<crudVars, migVars, floats, calls>>

\* a floating #insertSingleValue runs its INSERT
U_insertSingleValue ==
  \E r \in BagToSet(floats) :
    /\ sv' = insertSingleValue(sv, r.parent, r.fieldname, r.value)
    /\ floats' = floats (-) SetToBag({r})
    /\ UNCHANGED <<crudVars, migVars, call, ret, calls>>

\* the caller goes on after the returned call
SingleForget ==
  /\ ret # NoRet
  /\ ret' = NoRet
  /\ UNCHANGED <<crudVars, migVars, sv, floats, call, calls>>

\* get reads `!name` for Undef only
nameOmitted_undef(name) == name = Undef

\* get: `!name` with the default '' of the parameter
nameOmitted(name) == name \in {Undef, ""}

\* the collection tables of a database that stores singleton values only
NoRows == [Inv |-> {}, Bill |-> {}, Row |-> {}]

\* the name and fields arguments a caller passes to get
GetArgs == { [name |-> Undef, fields |-> Undef], [name |-> "", fields |-> "f"],
             [name |-> "p1", fields |-> "f"] }

\* a caller awaits get(S, name, fields) while no write is in flight: on a
\* collection schema without a name it throws before the first query, on a
\* singleton schema it returns #getSingle(S), else the row and its children.
\* ret records the error, the number of queries and the result.
SingleGet ==
  \E s \in SeqRange(singleSchemaNames) \cup {"Inv"}, a \in GetArgs :
    /\ ret = NoRet
    /\ \A p \in Procs : call[p].pc = "idle"
    /\ LET isSingle == s \in SeqRange(singleSchemaNames)
           answers == IF ~isSingle /\ nameOmitted(a.name)
                        THEN { [error |-> "ValueError", queries |-> 0, result |-> <<>>] }
                        ELSE IF isSingle
                          THEN { [error |-> "", queries |-> 1, result |-> m] :
                                   m \in getSingle(sv, s) }
                          ELSE { [error |-> "", queries |-> 2, result |-> m] :
                                   m \in get(NoRows, s, a.name) }
       IN  \E r \in answers :
             ret' = [op |-> "get", schemaName |-> s, map |-> a, before |-> sv,
                     error |-> r.error, queries |-> r.queries, result |-> r.result]
    /\ UNCHANGED <<crudVars, migVars, sv, floats, call, calls>>

NextSingle ==
  \/ SingleGet
  \/ SingleWrite \/ SingleDelete \/ SingleMigrate \/ I_singleExists
  \/ I_getNonExtant \/ U_select \/ U_update \/ U_insertSingleValue
  \/ SingleForget

(***************************************************************************)
(* The specifications                                                      *)
(***************************************************************************)
\* the variables of a part while another part runs
NoCrud == db = <<>> /\ last = NoCall

NoMigrate ==
  /\ cfg = [old |-> <<>>, new |-> <<>>, n |-> 0]
  /\ tbl = <<>>
  /\ fkOn = TRUE
  /\ txn = [active |-> FALSE, snap |-> <<>>]
  /\ th = <<>>
  /\ mig = NoMig

Init ==
  /\ db = [Inv |-> {}, Bill |-> {}, Row |-> {}]
  /\ last = NoCall
  /\ NoMigrate
  /\ SingleStart

Next == Insert \/ Update \/ Forget

Spec == Init /\ [][Next]_vars

InitMigrate ==
  /\ NoCrud
  /\ MigrateStart
  /\ SingleStart

SpecMigrate == InitMigrate /\ [][NextMigrate]_vars

InitSingle ==
  /\ NoCrud
  /\ NoMigrate
  /\ SingleStart

SpecSingle == InitSingle /\ [][NextSingle]_vars

\* the stored Entry rows before the first call
InitFilter ==
  /\ db \in [Entry : EntryTables]
  /\ last = NoCall
  /\ NoMigrate
  /\ SingleStart

\* getAll with filters on stored rows
SpecFilter == InitFilter /\ [][NextFilter]_vars

\* the stored Note rows before the first call
InitLike ==
  /\ db \in [Note : NoteTables]
  /\ last = NoCall
  /\ NoMigrate
  /\ SingleStart

\* getAll with substring filters
SpecLike == InitLike /\ [][NextLike]_vars

\* the page before the first element is mounted
InitClick ==
  /\ db = [instances |-> <<>>, index |-> [el \in Elements |-> NoIdx],
           listeners |-> {}, mounted |-> {}]
  /\ last = NoCall
  /\ NoMigrate
  /\ SingleStart

\* the outside-click directive
SpecClick == InitClick /\ [][NextClick]_vars

\* record access with rename and delete
SpecOwn == Init /\ [][NextOwn]_vars

\* record access after migrate(): the migration, then calls on its tables
SpecLink == InitMigrate /\ [][NextLink]_vars

(***************************************************************************)
(* Claims on record access                                                 *)
(***************************************************************************)
\* the names of the child records of the last call are pairwise distinct
DistinctNames == Injective([i \in DOMAIN last.prepared |-> last.prepared[i].name])

\* the last call was update(S, {name: P, F: L}) with P a row of S
UpdatedChildren ==
  /\ last.op = "update"
  /\ last.map.hasList
  /\ exists(db[last.schemaName], last.map.name)

\* what get returns for the Table field holds one row per record of the last
\* call's list, each as the call prepared it, in ascending idx
ReturnsGivenChildren ==
  \A res \in get(db, last.schemaName, last.map.name) :
    /\ Len(res.children) = Len(last.prepared)
    /\ SortedByIdx(res.children)
    /\ SeqRange(res.children) = SeqRange(last.prepared)

\* C1 as stated: after update(S, {name: P, F: L}), for any list L, get(S, P)
\* returns for F exactly the child rows of L, one per record of L, in
\* ascending idx.
C1_AnyList == UpdatedChildren => ReturnsGivenChildren

\* C1 (amended): after update(S, {name: P, F: L}) on a parent row P, for any
\* list L of child records with pairwise distinct names (the empty list
\* included) and any stored children, get(S, P) returns for F exactly the
\* child rows of L, one per record, in ascending idx: the parent's other
\* children are deleted, those of L that exist are updated, the others
\* inserted.
C1_FullSetReconciliation ==
  (UpdatedChildren /\ DistinctNames) => ReturnsGivenChildren

\* an update that deleted one stored child of the parent, updated another
\* and inserted a third
C1_Witness ==
  /\ UpdatedChildren /\ DistinctNames
  /\ \E n \in last.prior.own : \A i \in DOMAIN last.prepared : last.prepared[i].name # n
  /\ \E i \in DOMAIN last.prepared : last.prepared[i].name \in last.prior.all
  /\ \E i \in DOMAIN last.prepared : last.prepared[i].name \notin last.prior.all
  /\ ReturnsGivenChildren

\* C2: after insert(S, R) succeeds, get(S, R.name) returns R's value for every
\* non-Table field and, for the Table field, the child records given in R
\* (read here up to the order of ascending idx that get imposes).
C2_InsertGetRoundTrip ==
  (last.op = "insert" /\ last.ok) =>
    \A res \in get(db, last.schemaName, last.map.name) :
      /\ res.row = {validMap(last.schemaName, last.map)}
      /\ last.map.hasList =>
           /\ Len(res.children) = Len(last.prepared)
           /\ SeqRange(res.children) = SeqRange(last.prepared)

(***************************************************************************)
(* Claims on migrate()                                                     *)
(***************************************************************************)
\* no floating #removeColumns call was started, or each has ended normally
TasksDone == \A t \in Tasks : th[t].pc \in {"free", "done"}

\* no floating #removeColumns call was ever started
NoTasks == \A t \in Tasks : th[t].pc = "free"

\* migrate() has settled and so has every floating call
Quiescent ==
  /\ th[0].pc \in {"resolved", "rejected"}
  /\ \A t \in Tasks : th[t].pc \in {"free", "done", "failed"}

\* the columns a schema's fields call for
SchemaColumns(schemaName) ==
  { Fields(schemaName)[i].fieldname :
      i \in { j \in DOMAIN Fields(schemaName) : Fields(schemaName)[j].fieldtype # "Table" } }

\* the columns the Item table had before migrate()
OldColumns == SeqRange(buildColumnForTable(cfg.old).cols)

\* the Item table holds the rows it held before migrate(), each with its
\* value in every column that was there before
RowsPreserved ==
  /\ tbl["Item"].exists
  /\ Len(tbl["Item"].rows) = cfg.n
  /\ \A i \in 1..cfg.n :
       \E j \in DOMAIN tbl["Item"].rows :
          /\ tbl["Item"].rows[j]["name"] = i
          /\ \A c \in SeqRange(tbl["Item"].cols) \cap OldColumns :
                tbl["Item"].rows[j][c] = OrigVal(c, i)

\* C3: when a field was removed from the schema of a table holding N rows
\* (N below, equal to or above 200) and migrate() has run to completion, the
\* table has no removed column left and holds the same N rows with every
\* remaining value unchanged.
C3_ColumnRemovalPreservesRows ==
  (/\ cfg.old # <<>>
   /\ OldColumns \ SchemaColumns("Item") # {}
   /\ th[0].pc = "resolved"
   /\ TasksDone)
  => /\ RowsPreserved
     /\ SeqRange(tbl["Item"].cols) \cap (OldColumns \ SchemaColumns("Item")) = {}

\* C4: no execution of migrate() ends with foreign-key checking off, whether
\* the rebuild and the foreign-key-add path exit normally or by an error
\* thrown at one of their steps.
C4_ForeignKeyCheckingRestored == Quiescent => fkOn

\* C5: a second migrate() with the schema map unchanged computes an empty
\* column diff and no missing foreign key for every schema, performs no
\* table rebuild and leaves every table as the first run left it.
C5_MigrateIdempotent ==
  mig.run > 1 =>
    /\ th[0].pc = "alterTable" => (mig.diff = NoDiff /\ mig.newForeignKeys = <<>>)
    /\ ~mig.rebuilt
    /\ th[0].pc = "resolved" => tbl = mig.after

\* C6: when migrate() has finished, every collection schema has a table
\* whose column set equals the set of the schema's non-Table fields.
C6_PostMigrationShape ==
  th[0].pc = "resolved" =>
    \A s \in SeqRange(migSchemaNames) :
       /\ tbl[s].exists
       /\ SeqRange(tbl[s].cols) = SchemaColumns(s)

\* C7: when migrate() has finished, every Link field with a target is a
\* registered foreign key of its table; and when the foreign-key addition
\* has gone through its success path (checking off, begin, create temp, copy,
\* drop old, rename temp, commit) the table holds the rows and values it held
\* before.  Read on the runs that remove no column, where the foreign-key
\* addition is all that touches the table.
C7_ForeignKeysMirrorLinks ==
  NoTasks =>
    /\ th[0].pc = "resolved" =>
         /\ tbl["Item"].exists
         /\ buildColumnForTable(Fields("Item")).fks \subseteq tbl["Item"].fks
    /\ (mig.run = 1 /\ th[0].pc = "A_fkOn") => RowsPreserved

\* C8: when the copy into the temp table fails, the rollback leaves the
\* original table with all of its rows and no temp table, foreign-key
\* checking is re-enabled, the batched rebuild runs exactly once, and after
\* it the table exists under its name with the current column and
\* foreign-key definition and all of the original rows.
C8_FallbackRebuild ==
  (mig.run = 1 /\ mig.fallback /\ NoTasks) =>
    /\ th[0].pc = "C_select" =>
         (RowsPreserved /\ ~tbl["TEMPItem"].exists /\ fkOn)
    /\ th[0].pc = "resolved" =>
         /\ mig.rebuilds = 1
         /\ RowsPreserved
         /\ tbl["Item"].cols = buildColumnForTable(Fields("Item")).cols
         /\ tbl["Item"].fks = buildColumnForTable(Fields("Item")).fks

(***************************************************************************)
(* Claims on the Singleton Value Store                                     *)
(***************************************************************************)
\* C9: in every reachable state the SingleValue table holds at most one row
\* per (parent, fieldname) pair, also when two writes of a field not yet
\* stored follow one another and the existence check of the second runs
\* before the row of the first is inserted.
C9_SingletonUniqueness ==
  \A r, x \in BagToSet(sv) :
     (r.parent = x.parent /\ r.fieldname = x.fieldname) => (r = x /\ sv[r] = 1)

TargetRows(tables) ==
  IF tables["Account"].exists
    THEN { tables["Account"].rows[i]["name"] : i \in DOMAIN tables["Account"].rows }
    ELSE {}

\* the last call is insert('Item', ...) after a migrate() that added the Link
\* field acc, to a new table or to the table of an earlier release
InsertedWithLink ==
  /\ last \notin {NoCall, Went}
  /\ last.op = "insert" /\ last.schemaName = "Item"
  /\ FAcc \in SeqRange(cfg.new) /\ FAcc \notin SeqRange(cfg.old)

\* C13: after migrate() has added the Link field acc to the Item schema (the
\* table newly created, or the field added to an existing table), an insert
\* whose link value names no Account row is rejected and leaves the tables
\* unchanged, and an insert whose link value names an Account row succeeds.
C13_LinkEnforcedOnInsert ==
  InsertedWithLink =>
    /\ (last.value # 0 /\ last.value \notin TargetRows(last.prior))
         => (~last.ok /\ last.after = last.prior)
    /\ last.value \in TargetRows(last.prior) => last.ok

\* every non-null value the Item table stores in the Link field acc names an
\* Account row
LinksResolve(tables) ==
  (tables["Item"].exists /\ IndexOf(tables["Item"].cols, "acc") # 0) =>
    \A i \in DOMAIN tables["Item"].rows :
      tables["Item"].rows[i]["acc"] # 0 =>
        tables["Item"].rows[i]["acc"] \in TargetRows(tables)

\* the last call is op on the Account table
OnTarget(op) ==
  /\ last \notin {NoCall, Went}
  /\ last.op = op /\ last.schemaName = "Account"

\* C14: when migrate() has resolved with acc a Link field of the Item schema,
\* and after every completed insert, update, delete or rename that follows,
\* every non-null acc names an Account row; the delete of an Account row that
\* an Item references is rejected, and the rename of such a row rewrites the
\* referencing values.  This includes the state left by a migrate() that
\* added the foreign key to a table that held rows.  Stated for the
\* behaviours in which no floating #removeColumns call was started.
C14_LinkIntegrity ==
  (th[0].pc = "resolved" /\ NoTasks /\ FAcc \in SeqRange(cfg.new)) =>
    /\ LinksResolve(tbl)
    /\ (OnTarget("delete") /\ Referenced(last.prior, last.name)) =>
         (~last.ok /\ last.after = last.prior)
    /\ (OnTarget("rename") /\ last.ok) => ~Referenced(last.after, last.name)

(***************************************************************************)
(* Claims on rename, delete and names                                      *)
(***************************************************************************)
\* the child row r has a parent row: a row of its owning schema's table
\* whose name is r's parent
Owned(d, r) == \E q \in d[r.parentSchemaName] : q.name = r.parent

\* C15: after every completed insert, update, delete and rename, every child
\* row's parent names a row of the owning schema's table.
C15_ChildOwnership ==
  \A r \in db["Row"] : Owned(db, r)

\* the tables of the record-access specifications
OwnTables == {"Inv", "Bill", "Row"}

\* C16: in every state reached by insert, update and rename calls, every row
\* of every collection table has a non-empty name and no two rows of one
\* table share a name; a rename to a name in use is rejected with the data
\* unchanged, and no rename leaves a row with an empty name.
C16_NameInvariant ==
  /\ \A t \in OwnTables :
       /\ \A r \in db[t] : r.name \notin {"", Undef, Null}
       /\ \A r, q \in db[t] : r.name = q.name => r = q
  /\ (/\ last # NoCall
      /\ last.op = "rename"
      /\ last.newName # last.name
      /\ exists(last.prior[last.schemaName], last.name)
      /\ exists(last.prior[last.schemaName], last.newName))
       => (~last.ok /\ db = last.prior)

\* stored data with a parent row and a child row of it, that rename is
\* applied to
RenameCases ==
  { [Inv |-> inv, Bill |-> {}, Row |-> row] :
      inv \in SUBSET [name : ParentNames, note : {Null}],
      row \in SUBSET [name : {"c1"}, parent : ParentNames, parentSchemaName : {"Inv"},
                      parentFieldname : {"items"}, idx : {0}] }

\* rename changes the name column of the one row named oldName and nothing
\* else of the stored data: no child row's parent changes
RenameKeepsChildren ==
  \A d \in RenameCases : \A oldName, newName \in ParentNames :
    LET r == renameRow(d, "Inv", oldName, newName)
    IN  /\ r.db["Row"] = d["Row"] /\ r.db["Bill"] = d["Bill"]
        /\ \A q \in d["Inv"] : q.name # oldName => q \in r.db["Inv"]
        /\ \A q \in r.db["Inv"] :
             q \in d["Inv"] \/ (q.name = newName /\ [q EXCEPT !.name = oldName] \in d["Inv"])
        /\ ~r.ok => r.db = d

\* the rows of the Account table with oldName replaced by newName
TargetRenamed(tables, oldName, newName) ==
  [i \in DOMAIN tables["Account"].rows |->
     IF tables["Account"].rows[i]["name"] = oldName
       THEN [tables["Account"].rows[i] EXCEPT !["name"] = newName]
       ELSE tables["Account"].rows[i]]

\* the last call is a rename of a stored Account row that succeeded
RenamedTarget ==
  /\ OnTarget("rename") /\ last.ok
  /\ last.name \in TargetRows(last.prior)

ChildrenOf(rows, s, name) ==
  { r \in rows : r.parent = name /\ r.parentSchemaName = s }

\* C18: after a delete(S, name) that succeeded no row named name is in S's
\* table and no row with parent = name is in the child table of S's Table
\* field, the rows of S with other names and the child rows of other parents
\* are unchanged; when the deletion of the parent row is rejected nothing is
\* deleted.
C18_CascadeDelete ==
  (last # NoCall /\ last.op = "delete") =>
    LET s == last.schemaName
        t == getTableFields(s)[1].target
    IN  IF last.ok
          THEN /\ ~exists(db[s], last.name)
               /\ \A r \in db[t] : r.parent # last.name
               /\ { r \in db[s] : r.name # last.name }
                    = { r \in last.prior[s] : r.name # last.name }
               /\ db[t] \ ChildrenOf(db[t], s, last.name)
                    = last.prior[t] \ ChildrenOf(last.prior[t], s, last.name)
               /\ \A o \in OwnTables \ {s, t} : db[o] = last.prior[o]
          ELSE db = last.prior

\* C19: when the promise of migrate() resolves every step it started has
\* completed: no floating table rebuild is between its first and its last
\* statement, no temp table is left, every table of the schema map exists,
\* foreign-key checking is on, and no insert of a SingleValue default is
\* pending.
C19_MigrateFinishes ==
  /\ (0 \in DOMAIN th /\ th[0].pc = "resolved") =>
       /\ \A t \in Tasks : th[t].pc \in {"free", "done", "failed"}
       /\ \A s \in SeqRange(migSchemaNames) : tbl[s].exists
       /\ \A p \in PhysNames \ SeqRange(migSchemaNames) : ~tbl[p].exists
       /\ fkOn
  /\ ret.op = "migrate" => floats = EmptyBag

(***************************************************************************)
(* Claims on filters                                                       *)
(***************************************************************************)
\* row satisfies the condition a filter map gives for a field: a literal v
\* means field = v, [op, v] means field op v, [op1, v1, op2, v2] means both
Satisfies(row, field, value) ==
  CASE value.kind = "literal" -> row[field] = value.vals[1]
    [] value.kind = "pair"    -> Compare(row[field], value.ops[1], value.vals[1])
    [] value.kind = "quad"    -> /\ Compare(row[field], value.ops[1], value.vals[1])
                                 /\ Compare(row[field], value.ops[2], value.vals[2])

\* C20: getAll(S, {filters: F}) returns exactly the rows of S that satisfy
\* the condition of every field of F (conditions on different fields are
\* conjoined); an empty filter map selects all rows.
C20_FilterSemantics ==
  (last # NoCall /\ last.op = "getAll" /\ last.schemaName = "Entry") =>
    /\ last.result =
         { r.name : r \in { x \in db["Entry"] :
              \A f \in DOMAIN last.filters : Satisfies(x, f, last.filters[f]) } }
    /\ DOMAIN last.filters = {} => last.result = RowNames(db["Entry"])

\* a call with a literal on one field and an inclusive range on the other
\* that selects one of two stored rows, the other one failing the upper end
\* of the range only
C20_Witness ==
  /\ last # NoCall /\ last.op = "getAll" /\ last.schemaName = "Entry"
  /\ DOMAIN last.filters = {"status", "date"}
  /\ last.filters["date"].kind = "quad"
  /\ last.filters["date"].ops = <<">=", "<=">>
  /\ Cardinality(db["Entry"]) = 2
  /\ Cardinality(last.result) = 1
  /\ \E x \in db["Entry"] :
       /\ x.name \notin last.result
       /\ x.status = last.filters["status"].vals[1]
       /\ x.date >= last.filters["date"].vals[1]
       /\ x.date > last.filters["date"].vals[2]

\* the operator and the operand the claim has emitted for a condition given
\* as op, v
Rewritten(op, v) ==
  LET operator == IF toLowerCase(op) = "includes" THEN "like" ELSE toLowerCase(op)
  IN  <<operator,
        IF operator = "like" /\ ~includes(v, "%") THEN <<"%">> \o v \o <<"%">> ELSE v>>

\* C21: every condition of a filter, the first and the second one of a
\* four-element filter alike, is emitted with includes as like, with a like
\* operand that has no % wrapped as %operand%, and with a like operand that
\* has a % unchanged.
C21_OperatorRewriting ==
  (last # NoCall /\ last.op = "getAll" /\ last.schemaName = "Note") =>
    \A f \in DOMAIN last.filters :
      LET value == last.filters[f]
          mine == SelectSeq(last.conditions, LAMBDA c : c[1] = f)
      IN  /\ Len(mine) = Len(value.ops)
          /\ \A i \in DOMAIN value.ops :
               <<mine[i][2], mine[i][3]>> = Rewritten(value.ops[i], value.vals[i])

\* C22: truncate() leaves every user table in place with zero rows, also
\* when rows are referenced through Link foreign keys, and
\* truncate(tableNames) empties the named tables and changes no other.
C22_Truncate ==
  (last \notin {NoCall, Went} /\ last.op = "truncate") =>
    /\ last.ok
    /\ \A p \in PhysNames :
         /\ last.after[p].exists = last.prior[p].exists
         /\ (\E i \in DOMAIN last.name : last.name[i] = p) => last.after[p].rows = <<>>
         /\ ~(\E i \in DOMAIN last.name : last.name[i] = p) => last.after[p] = last.prior[p]
    /\ ~last.value =>
         \A p \in PhysNames : last.after[p].exists => last.after[p].rows = <<>>

\* the map of the stored values of a singleton schema: every stored field
\* with a value stored for it
WholeDocument(rows, schemaName, m) ==
  /\ DOMAIN m = { r.fieldname : r \in { x \in BagToSet(rows) : x.parent = schemaName } }
  /\ \A f \in DOMAIN m :
       \E r \in BagToSet(rows) : r.parent = schemaName /\ r.fieldname = f /\ r.value = m[f]

\* C23: get on a collection schema with the name omitted or empty fails with
\* ValueError before any query and changes no stored data; get on a singleton
\* schema returns the whole document whatever name and fields are passed.
C23_GetValidation ==
  [][(ret = NoRet /\ ret'.op = "get") =>
       /\ sv' = sv /\ floats' = floats /\ db' = db /\ tbl' = tbl
       /\ (ret'.schemaName = "Inv" /\ ret'.map.name \in {Undef, ""}) =>
            (ret'.error = "ValueError" /\ ret'.queries = 0)
       /\ ret'.schemaName \in SeqRange(singleSchemaNames) =>
            (ret'.error = "" /\ WholeDocument(sv, ret'.schemaName, ret'.result))]_vars

\* get('Inv', '') has thrown on a database that stores singleton values
C23_Witness ==
  /\ ret.op = "get" /\ ret.schemaName = "Inv" /\ ret.map.name = ""
  /\ ret.error = "ValueError" /\ sv # EmptyBag

\* C24: getAll on a schema that is not registered fails with NotFoundError
\* without a query and without changing stored data, whatever the options;
\* on a registered schema it does not fail with NotFoundError.
C24_GetAllNotFound ==
  [][(last = NoCall /\ last'.op = "getAll") =>
       /\ db' = db
       /\ last'.schemaName = "Ghost" => (last'.error = "NotFoundError" /\ last'.queries = 0)
       /\ last'.schemaName = "Entry" => last'.error # "NotFoundError"]_vars

\* getAll('Ghost', {filters}) with a range filter has failed on a database
\* with stored rows
C24_Witness ==
  /\ last # NoCall /\ last.op = "getAll" /\ last.schemaName = "Ghost"
  /\ last.error = "NotFoundError"
  /\ \E f \in DOMAIN last.filters : last.filters[f].kind = "quad"
  /\ db["Entry"] # {}

\* thread t runs the only call of prestigeTheTable made so far
OnlyRebuild(t) ==
  IF t = 0 THEN NoTasks /\ mig.rebuilds = 1
           ELSE mig.rebuilds = 0 /\ \A u \in Tasks \ {t} : th[u].pc = "free"

\* C25: when the copy loop of a table rebuild is through, every one of the N
\* given rows is in the rebuilt table exactly once, in batches of at most
\* 200 rows, for N below, at and above 200: the rebuilt table has N rows.
C25_BatchedCopy ==
  \A t \in Threads :
    (th[t].pc = "P_dropOld" /\ OnlyRebuild(t)) =>
      LET given == th[t].rows
          copied == tbl["__Item"].rows
      IN  /\ Len(copied) = Len(given)
          /\ \A i \in DOMAIN given :
               Cardinality({ j \in DOMAIN copied : copied[j]["name"] = given[i]["name"] }) = 1

\* the stored child row of the i-th record given for the Table field of the
\* inserted parent: linked to the parent, named, at its position
LinkedChild(r, i) ==
  LET given == last.map.list[i]
  IN  /\ r.parent = last.map.name
      /\ r.parentSchemaName = last.schemaName
      /\ r.parentFieldname = getTableFields(last.schemaName)[1].fieldname
      /\ r.name \notin {Undef, ""}
      /\ given.name # Undef => r.name = given.name
      /\ r.idx = IF given.idx = NoIdx THEN i - 1 ELSE given.idx

\* C26: after insert(S, R) every record of R[F] is stored as a child row with
\* parent = R.name, parentSchemaName = S, parentFieldname = F, a name and,
\* when it carried none, idx = its position; get(S, R.name) then returns the
\* children in the order they were given.
C26_ChildLinkage ==
  (last.op = "insert" /\ last.ok /\ last.map.hasList) =>
    /\ \A i \in DOMAIN last.map.list : \E r \in db["Row"] : LinkedChild(r, i)
    /\ \A res \in get(db, last.schemaName, last.map.name) :
         /\ Len(res.children) = Len(last.map.list)
         /\ \A i \in DOMAIN last.map.list : LinkedChild(res.children[i], i)

BelongsTo(r, S, name) ==
  /\ r.parent = name
  /\ r.parentSchemaName = S
  /\ r.parentFieldname = getTableFields(S)[1].fieldname

\* C28: update(S, R) with Table field F given deletes or modifies only child
\* rows of field F of the parent R.name of S: the child rows of a parent of
\* that name in another schema and of other parents stay as they are, and
\* get(S, R.name) returns under F only children of F of that parent.
C28_ChildIsolation ==
  [][(last = NoCall /\ last'.op = "update" /\ last'.map.hasList) =>
       LET S == last'.schemaName
           R == last'.map
       IN  /\ \A r \in db["Row"] : ~BelongsTo(r, S, R.name) => r \in db'["Row"]
           /\ \A res \in get(db', S, R.name) :
                \A i \in DOMAIN res.children : BelongsTo(res.children[i], S, R.name)]_vars

C30_OutsideClickRegistry ==
  /\ \A el \in db.mounted :
       /\ db.index[el] + 1 \in DOMAIN db.instances
       /\ db.instances[db.index[el] + 1] = el
  /\ db.listeners = db.mounted
  /\ (last # NoCall /\ last.op = "click") => last.invoked \subseteq db.mounted

====
